---- MODULE Spec2Model ----
(***************************************************************************)
(* ATS-Verify: the IMEI reconciliation engine (IMEIService.Analyze) and    *)
(* the risk-analysis anomaly detector (RiskAnalysisService.AnalyzeCSV).    *)
(*                                                                         *)
(* Go strings are modelled as sequences of one-character strings (all      *)
(* characters of the model are ASCII, so Go's byte length len(s) is the    *)
(* number of characters; the one exception is the byte-order mark, which   *)
(* only occurs at the start of a header).                                  *)
(***************************************************************************)
EXTENDS Integers, Sequences, FiniteSets, TLC

VARIABLES
    ipc,        \* position of IMEIService.Analyze: start | reading | done | error
    header,     \* the CSV header record returned by the first reader.Read()
    pdfText,    \* pdfTextContent
    colMap,     \* colMap: column index -> trimmed header name (IMEI columns only)
    pdf15,      \* pdf15Digits: the 15-digit candidates, in text order
    statsMap,   \* statsMap: column name -> IMEIColumnStats
    csvLine,    \* csvLine
    report,     \* *models.IMEIVerificationReport
    srcFile,    \* history: the data lines the reader has consumed so far
    origin,     \* history: for each result, the source line and column it came from
    iret,       \* what Analyze returns: (report, err)
    firstReport,\* history: the report of the first invocation on this upload
    cursor,     \* the second invocation's position in the data lines of the upload
    rpc,        \* position of RiskAnalysisService.AnalyzeCSV:
                \*   start | reading | flagging | done | error
    rheader,    \* the CSV header record of the risk upload
    resolved,   \* resolvedCols and appIDIdx: logical column -> index (0: absent)
    rows,       \* rows: the RiskCSVRow values kept so far
    consumed,   \* history: the number of data lines read from the risk upload
    bulkRun,    \* history: how many of them, at the end, are the bulk line
    result,     \* *RiskAnalysisResult
    pending,    \* the upserts the two auto-flag loops have still to issue
    flaggedBy,  \* the actor AnalyzeCSV was called with
    store,      \* table iin_bin_risks: the set of its rows
    clock,      \* NOW() of the database, and the source of fresh record IDs
    rret,       \* what AnalyzeCSV returns: (result, err)
    log,        \* history: the repository calls so far, in commit order, with their outcome
    detected,   \* history: the result as it stood when the auto-flag loops began
    run,        \* history: which invocation of AnalyzeCSV on this upload this is
    firstResult,\* history: the result the first invocation returned
    firstStore, \* history: the store as the first invocation left it
    inflight,   \* per concurrent caller of the repository: the upserts it has still to issue
    tickets,    \* table support_tickets: its rows in order of creation
    tresp,      \* the response to the last request of the ticket endpoints
    trackers,   \* TrackingService.trackers
    trackNumber,\* the argument of TrackingService.Track
    tpc,        \* position of Track: start | ready | querying | done
    next,       \* the index in trackers of the provider the loop queries next
    queried,    \* history: the provider calls of this Track, with their outcomes
    tret        \* what Track returns: (result, err)

imeiVars == <<ipc, header, pdfText, colMap, pdf15, statsMap, csvLine, report,
              srcFile, origin, iret, firstReport, cursor>>

riskVars == <<rpc, rheader, resolved, rows, consumed, bulkRun, result, pending,
              flaggedBy, store, clock, rret, log, detected, run, firstResult,
              firstStore, inflight>>

ticketVars == <<tickets, tresp>>

trackVars == <<trackers, trackNumber, tpc, next, queried, tret>>

vars == <<imeiVars, riskVars, ticketVars, trackVars>>

-----------------------------------------------------------------------------
(* Bounds of the model.                                                    *)

MaxRows == 2

\* A risk upload is at most MaxHead lines of any kind, or at most one line
\* of any kind followed by at most MaxTail repetitions of the bulk line (an
\* upload without an application-ID column holds the bulk line only).
MaxHead == 4
MaxTail == 10

\* The repository calls (upserts and deletes) of concurrent callers.
MaxCalls == 5

-----------------------------------------------------------------------------
(* Characters and the strings package.                                     *)

Digits == {"0", "1", "2", "3", "4", "5", "6", "7", "8", "9"}

Upper == <<"A", "B", "C", "D", "E", "F", "G", "H", "I", "J", "K", "L", "M",
           "N", "O", "P", "Q", "R", "S", "T", "U", "V", "W", "X", "Y", "Z">>

Lower == <<"a", "b", "c", "d", "e", "f", "g", "h", "i", "j", "k", "l", "m",
           "n", "o", "p", "q", "r", "s", "t", "u", "v", "w", "x", "y", "z">>

IsSpace(c) == c \in {" ", "\t", "\n", "\r"}

\* regexp \w : [0-9A-Za-z_]
IsWordChar(c) ==
    \/ c \in Digits
    \/ c = "_"
    \/ \E i \in 1..26 : c = Upper[i] \/ c = Lower[i]

ToLowerChar(c) ==
    IF \E i \in 1..26 : Upper[i] = c
    THEN Lower[CHOOSE i \in 1..26 : Upper[i] = c]
    ELSE c

ToLower(s) == [i \in 1..Len(s) |-> ToLowerChar(s[i])]

RECURSIVE TrimLeft(_)
TrimLeft(s) ==
    IF s # <<>> /\ IsSpace(Head(s)) THEN TrimLeft(Tail(s)) ELSE s

RECURSIVE TrimRight(_)
TrimRight(s) ==
    IF s # <<>> /\ IsSpace(s[Len(s)])
    THEN TrimRight(SubSeq(s, 1, Len(s) - 1))
    ELSE s

TrimSpace(s) == TrimRight(TrimLeft(s))

HasPrefix(s, prefix) ==
    /\ Len(s) >= Len(prefix)
    /\ SubSeq(s, 1, Len(prefix)) = prefix

Contains(s, substr) ==
    \E i \in 0..(Len(s) - Len(substr)) :
        SubSeq(s, i + 1, i + Len(substr)) = substr

-----------------------------------------------------------------------------
(* regex15Digits = \b\d{15}\b and FindAllString.                           *)

CandidateLen == 15

\* \b at the gap before position i (1-based): exactly one neighbour is \w.
WordBoundary(text, i) ==
    LET before == i > 1 /\ i - 1 <= Len(text) /\ IsWordChar(text[i - 1])
        after  == i >= 1 /\ i <= Len(text) /\ IsWordChar(text[i])
    IN  before # after

MatchAt(text, i) ==
    /\ i + CandidateLen - 1 <= Len(text)
    /\ \A k \in i..(i + CandidateLen - 1) : text[k] \in Digits
    /\ WordBoundary(text, i)
    /\ WordBoundary(text, i + CandidateLen)

RECURSIVE ScanFrom(_, _)
ScanFrom(text, i) ==
    IF i + CandidateLen - 1 > Len(text) THEN <<>>
    ELSE IF MatchAt(text, i)
         THEN <<SubSeq(text, i, i + CandidateLen - 1)>>
                  \o ScanFrom(text, i + CandidateLen)
         ELSE ScanFrom(text, i + 1)

FindAllString(text) == ScanFrom(text, 1)

-----------------------------------------------------------------------------
(* The uploads the model draws from.                                       *)

D13 == <<"1", "2", "3", "4", "5", "6", "7", "8", "9", "0", "1", "2", "3">>
D14 == D13 \o <<"4">>
Run15a == D14 \o <<"5">>
Run15b == D14 \o <<"6">>

CellBlank    == <<" ">>                          \* empty after trimming
CellShort    == D13                              \* 13 characters
Cell15       == Run15a                           \* 14 digits + check digit
Cell15x      == <<" ">> \o D14 \o <<"x", " ">>   \* padded, non-numeric tail
CellNonDigit == D13 \o <<"x">>                   \* 14 characters, one a letter

Cells == {CellBlank, CellShort, Cell15, Cell15x, CellNonDigit}

\* The cells of the second and later IMEI columns of a record.
MoreCells == {CellShort, Cell15, CellNonDigit}

Filler == <<"n">>

TextNone     == <<"n", "o", "n", "e">>
TextEmbedded == <<"a", "b", "c">> \o D14 \o <<"x", "y", "z">>
TextTwo      == <<"N", "o", " ">> \o Run15a \o <<",">> \o Run15b \o <<".">>

Texts == {TextNone, TextEmbedded, TextTwo}

ColImei   == <<"i", "m", "e", "i">>
ColImeiSp == <<" ", "i", "m", "e", "i", " ">>
ColImei1  == <<"I", "m", "e", "i", "1">>
ColImei2  == <<"I", "M", "E", "I", "2">>
ColName   == <<"n", "a", "m", "e">>

\* The UTF-8 byte-order mark EF BB BF: one character, not white space.
BOM == "\\ufeff"

ColBomImei  == <<BOM>> \o ColImei
ColSemiImei == ColImei1 \o <<";">> \o ColImei2

Headers == { <<ColImei>>,
             <<ColImei1, ColImei2>>,
             <<ColImei, ColImeiSp>>,
             <<ColName, ColImei1>>,
             <<ColName>>,
             <<ColBomImei>>,
             <<ColSemiImei>> }

-----------------------------------------------------------------------------
(* encoding/csv with TrimLeadingSpace = true.                              *)

\* A field as the reader returns it: leading white space removed.
ReaderField(raw) == TrimLeft(raw)

ReaderRecord(rawRecord) == [i \in 1..Len(rawRecord) |-> ReaderField(rawRecord[i])]

\* A data line of the upload: malformed (reader.Read() returns an error: a
\* quoting error, or a field count different from the header's), or a record
\* with as many fields as the header.
BadLine == [ok |-> FALSE, rec |-> <<>>]

IsIMEIHeader(col) == ToLower(TrimSpace(col)) \in
    { <<"i", "m", "e", "i">>,
      <<"i", "m", "e", "i", "1">>,
      <<"i", "m", "e", "i", "2">>,
      <<"i", "m", "e", "i", "3">>,
      <<"i", "m", "e", "i", "4">>,
      <<"i", "m", "e", "i", "_", "n", "u", "m", "b", "e", "r">> }

GoodLines(hdr) ==
    LET first == { i \in 1..Len(hdr) :
                     /\ IsIMEIHeader(hdr[i])
                     /\ \A j \in 1..(i - 1) : ~IsIMEIHeader(hdr[j]) }
    IN  { [ok |-> TRUE, rec |-> r] :
            r \in { f \in [1..Len(hdr) -> Cells \cup {Filler}] :
                      \A i \in 1..Len(hdr) :
                          /\ (f[i] = Filler) <=> ~IsIMEIHeader(hdr[i])
                          /\ (f[i] \in MoreCells) \/ (i \in first) \/ (f[i] = Filler) } }

\* bytes.TrimPrefix(data, BOM), seen from the first field of the header.
TrimBOM(hdr) ==
    IF hdr # <<>> /\ hdr[1] # <<>> /\ hdr[1][1] = BOM
    THEN [hdr EXCEPT ![1] = Tail(@)]
    ELSE hdr

\* The fields of a line split at the separator sep.
RECURSIVE SplitAt(_, _)
SplitAt(line, sep) ==
    IF \A i \in 1..Len(line) : line[i] # sep THEN <<line>>
    ELSE LET k == CHOOSE i \in 1..Len(line) :
                      line[i] = sep /\ \A j \in 1..(i - 1) : line[j] # sep
         IN  <<SubSeq(line, 1, k - 1)>> \o SplitAt(SubSeq(line, k + 1, Len(line)), sep)

\* NewRobustCSVReader, seen from the header: the byte-order mark is removed,
\* and a first line that gives one field under ',' and holds a ';' is split
\* at ';'.
RobustHeader(hdr) ==
    LET h == TrimBOM(hdr)
    IN  ReaderRecord(IF Len(h) = 1 /\ Contains(h[1], <<";">>)
                     THEN SplitAt(h[1], ";")
                     ELSE h)

-----------------------------------------------------------------------------
(* IMEIService.Analyze.                                                    *)

IMEILen == 14

Placeholder == <<"(prefix matched in text)">>

Perms(S) ==
    { f \in [1..Cardinality(S) -> S] : \A x \in S : \E i \in DOMAIN f : f[i] = x }

\* The loop without its break: the last candidate with the prefix wins.
RECURSIVE LastWithPrefix(_, _)
LastWithPrefix(seqs, imei14) ==
    IF seqs = <<>> THEN <<>>
    ELSE IF HasPrefix(seqs[Len(seqs)], imei14) THEN seqs[Len(seqs)]
         ELSE LastWithPrefix(SubSeq(seqs, 1, Len(seqs) - 1), imei14)

\* for _, seq := range pdf15Digits { if HasPrefix(seq, imei14) { matched = seq; break } }
RECURSIVE FirstWithPrefix(_, _)
FirstWithPrefix(seqs, imei14) ==
    IF seqs = <<>> THEN <<>>
    ELSE IF HasPrefix(Head(seqs), imei14) THEN Head(seqs)
         ELSE FirstWithPrefix(Tail(seqs), imei14)

\* The rule with found decided by the candidates alone.
MatchCellPrefixOnly(text, candidates, imei14) ==
    LET seq == FirstWithPrefix(candidates, imei14)
    IN  [found |-> seq # <<>>, matched |-> seq]

\* The rule with a found result left without a value when no candidate
\* starts with it.
MatchCellNoPlaceholder(text, candidates, imei14) ==
    LET found == Contains(text, imei14)
        seq   == FirstWithPrefix(candidates, imei14)
    IN  [found |-> found, matched |-> IF found THEN seq ELSE <<>>]

\* The match rule: found by substring containment in the whole text; the
\* candidates only supply the value shown.
MatchCell(text, candidates, imei14) ==
    LET found == Contains(text, imei14)
        seq   == FirstWithPrefix(candidates, imei14)
    IN  [ found   |-> found,
          matched |-> IF ~found THEN <<>>
                      ELSE IF seq = <<>> THEN Placeholder
                      ELSE seq ]

\* The normalization without the truncation.
NormalizeNoTruncate(imei) == imei

\* The normalized value of a trimmed cell: its first 14 characters.
Normalize(imei) ==
    IF Len(imei) > IMEILen THEN SubSeq(imei, 1, IMEILen) ELSE imei

\* The length test off by one.
SkippedOffByOne(imei14) == Len(imei14) < IMEILen - 1

\* A normalized value shorter than 14 characters is skipped.
Skipped(imei14) == Len(imei14) < IMEILen

ZeroStats(colName) == [Column |-> colName, Total |-> 0, Found |-> 0, Missing |-> 0]

\* The tally that forgets the Missing counter.
TallyNoMissing(stats, found) ==
    [ stats EXCEPT
        !.Total = @ + 1,
        !.Found = IF found THEN @ + 1 ELSE @ ]

\* statsMap[colName].Total++ and then .Found++ or .Missing++
Tally(stats, found) ==
    [ stats EXCEPT
        !.Total   = @ + 1,
        !.Found   = IF found THEN @ + 1 ELSE @,
        !.Missing = IF found THEN @ ELSE @ + 1 ]

\* One run of the inner loop body: the cell of column colIdx of the record.
\* st = [report, statsMap, origin]; line is the position of the record among
\* the data lines of the upload.
ProcessCell(st, colIdx, record, line) ==
    LET colName == colMap[colIdx]
        imei    == IF colIdx > Len(record) THEN <<>> ELSE TrimSpace(record[colIdx])
        imei14  == Normalize(imei)
        m       == MatchCell(pdfText, pdf15, imei14)
        old     == st.statsMap[colName]
        res     == [ CSVLine     |-> csvLine + 1,
                     Column      |-> colName,
                     IMEI14      |-> imei14,
                     MatchedIMEI |-> m.matched,
                     Found       |-> m.found ]
    IN  IF colIdx > Len(record) \/ imei = <<>> \/ Skipped(imei14) THEN st
        ELSE [ report |->
                 [ st.report EXCEPT
                     !.TotalIMEIs   = @ + 1,
                     !.TotalFound   = IF m.found THEN @ + 1 ELSE @,
                     !.TotalMissing = IF m.found THEN @ ELSE @ + 1,
                     !.Results      = Append(@, res) ],
               statsMap |-> [ st.statsMap EXCEPT ![colName] = Tally(old, m.found) ],
               origin |-> Append(st.origin, [line |-> line, col |-> colIdx]) ]

\* for colIdx, colName := range colMap { ... } in the iteration order ord.
RECURSIVE ProcessCols(_, _, _, _)
ProcessCols(st, ord, record, line) ==
    IF ord = <<>> THEN st
    ELSE ProcessCols(ProcessCell(st, Head(ord), record, line), Tail(ord), record, line)

\* The missing-details section listing every result.
RECURSIVE MissingLinesAll(_)
MissingLinesAll(results) ==
    IF results = <<>> THEN <<>>
    ELSE << [ kind |-> "missing-detail", line |-> Head(results).CSVLine,
              column |-> Head(results).Column, imei |-> Head(results).IMEI14 ] >>
         \o MissingLinesAll(Tail(results))

RECURSIVE MissingLines(_)
MissingLines(results) ==
    IF results = <<>> THEN <<>>
    ELSE (IF ~Head(results).Found
          THEN << [ kind |-> "missing-detail", line |-> Head(results).CSVLine,
                    column |-> Head(results).Column, imei |-> Head(results).IMEI14 ] >>
          ELSE <<>>) \o MissingLines(Tail(results))

MappingLine(res) ==
    IF res.Found
    THEN [ kind |-> "MATCHED", line |-> res.CSVLine, column |-> res.Column,
           imei |-> res.IMEI14, matched |-> res.MatchedIMEI ]
    ELSE [ kind |-> "MISSING", line |-> res.CSVLine, column |-> res.Column,
           imei |-> res.IMEI14 ]

generateTextReport(rep) ==
    << [kind |-> "banner"],
       [kind |-> "total", n |-> rep.TotalIMEIs],
       [kind |-> "total-found", n |-> rep.TotalFound],
       [kind |-> "total-missing", n |-> rep.TotalMissing],
       [kind |-> "statistics-header"] >>
    \o [ i \in 1..Len(rep.ColumnStats) |->
           [ kind |-> "column", column |-> rep.ColumnStats[i].Column,
             total |-> rep.ColumnStats[i].Total, found |-> rep.ColumnStats[i].Found,
             missing |-> rep.ColumnStats[i].Missing ] ]
    \o (IF rep.TotalMissing > 0
        THEN <<[kind |-> "missing-header"]>> \o MissingLines(rep.Results)
        ELSE <<>>)
    \o <<[kind |-> "mapping-header"]>>
    \o [ i \in 1..Len(rep.Results) |-> MappingLine(rep.Results[i]) ]

Nil == [kind |-> "nil"]

\* Nothing returned yet.
NoReturn == [value |-> Nil, err |-> Nil]

ErrReadingHeader == [kind |-> "reading CSV header"]

ErrNoIMEIColumn ==
    [kind |-> "CSV must contain at least one IMEI column (imei, imei1..imei4)"]

EmptyReport ==
    [ TotalIMEIs |-> 0, TotalFound |-> 0, TotalMissing |-> 0,
      ColumnStats |-> <<>>, Results |-> <<>>, TextReport |-> <<>> ]

InitIMEI ==
    /\ ipc = "start"
    /\ header = <<>>
    /\ pdfText = <<>>
    /\ colMap = <<>>
    /\ pdf15 = <<>>
    /\ statsMap = <<>>
    /\ csvLine = 0
    /\ report = EmptyReport
    /\ srcFile = <<>>
    /\ origin = <<>>
    /\ iret = NoReturn
    /\ firstReport = Nil
    /\ cursor = 0

\* reader.Read() on an empty upload returns io.EOF instead of a header:
\* Analyze returns "reading CSV header".
AnalyzeNoHeader ==
    /\ ipc = "start"
    /\ \E text \in Texts : pdfText' = text
    /\ ipc' = "error"
    /\ iret' = [value |-> Nil, err |-> ErrReadingHeader]
    /\ UNCHANGED <<header, colMap, pdf15, statsMap, csvLine, report, srcFile, origin>>
    /\ UNCHANGED <<firstReport, cursor>>
    /\ UNCHANGED <<riskVars, ticketVars, trackVars>>

\* Lines 35-65: the header is read, the IMEI columns are found, the
\* candidates are extracted and the trackers are set up.
AnalyzeStart ==
    /\ ipc = "start"
    /\ \E rawHeader \in Headers, text \in Texts :
         LET hdr  == ReaderRecord(rawHeader)
             cols == { i \in 1..Len(hdr) : IsIMEIHeader(hdr[i]) }
             cm   == [ i \in cols |-> TrimSpace(hdr[i]) ]
         IN  /\ header' = hdr
             /\ pdfText' = text
             /\ IF cols = {}
                THEN /\ ipc' = "error"
                     /\ iret' = [value |-> Nil, err |-> ErrNoIMEIColumn]
                     /\ UNCHANGED <<colMap, pdf15, statsMap, csvLine>>
                ELSE /\ ipc' = "reading"
                     /\ iret' = iret
                     /\ colMap' = cm
                     /\ pdf15' = FindAllString(text)
                     /\ statsMap' = [ n \in { cm[i] : i \in cols } |-> ZeroStats(n) ]
                     /\ csvLine' = 1
    /\ UNCHANGED <<report, srcFile, origin>>
    /\ UNCHANGED <<firstReport, cursor>>
    /\ UNCHANGED <<riskVars, ticketVars, trackVars>>

\* reader.Read() returns an error other than io.EOF: continue.
ReadBadRecord ==
    /\ ipc = "reading"
    /\ Len(srcFile) < MaxRows
    /\ srcFile' = Append(srcFile, BadLine)
    /\ UNCHANGED <<ipc, header, pdfText, colMap, pdf15, statsMap, csvLine, report, origin>>
    /\ UNCHANGED <<iret, firstReport, cursor>>
    /\ UNCHANGED <<riskVars, ticketVars, trackVars>>

\* reader.Read() returns a record: csvLine++ and the inner loop over colMap,
\* in whatever order the map is iterated.
ReadRecord ==
    /\ ipc = "reading"
    /\ Len(srcFile) < MaxRows
    /\ \E ln \in GoodLines(header), ord \in Perms(DOMAIN colMap) :
         LET st == ProcessCols([report |-> report, statsMap |-> statsMap, origin |-> origin],
                               ord, ReaderRecord(ln.rec), Len(srcFile) + 1)
         IN  /\ srcFile' = Append(srcFile, ln)
             /\ csvLine' = csvLine + 1
             /\ report' = st.report
             /\ statsMap' = st.statsMap
             /\ origin' = st.origin
    /\ UNCHANGED <<ipc, header, pdfText, colMap, pdf15>>
    /\ UNCHANGED <<iret, firstReport, cursor>>
    /\ UNCHANGED <<riskVars, ticketVars, trackVars>>

\* reader.Read() returns io.EOF: the per-column stats are collected by
\* ranging over colMap, the text report is generated, the report returned.
AnalyzeFinish ==
    /\ ipc = "reading"
    /\ \E ord \in Perms(DOMAIN colMap) :
         LET withStats == [ report EXCEPT
                 !.ColumnStats = [ i \in 1..Len(ord) |-> statsMap[colMap[ord[i]]] ] ]
         IN  report' = [ withStats EXCEPT !.TextReport = generateTextReport(withStats) ]
    /\ iret' = [value |-> report', err |-> Nil]
    /\ ipc' = "done"
    /\ UNCHANGED <<header, pdfText, colMap, pdf15, statsMap, csvLine, srcFile, origin>>
    /\ UNCHANGED <<firstReport, cursor>>
    /\ UNCHANGED <<riskVars, ticketVars, trackVars>>

NextIMEI == AnalyzeNoHeader \/ AnalyzeStart \/ ReadBadRecord \/ ReadRecord \/ AnalyzeFinish

\* A second invocation of Analyze on the same upload and the same text:
\* lines 31-65 give the same header, colMap and candidates, and fresh
\* trackers.
AnalyzeAgain ==
    /\ ipc = "done"
    /\ firstReport = Nil
    /\ firstReport' = report
    /\ statsMap' = [ n \in DOMAIN statsMap |-> ZeroStats(n) ]
    /\ report' = EmptyReport
    /\ csvLine' = 1
    /\ origin' = <<>>
    /\ cursor' = 0
    /\ iret' = NoReturn
    /\ ipc' = "reading again"
    /\ UNCHANGED <<header, pdfText, colMap, pdf15, srcFile>>
    /\ UNCHANGED <<riskVars, ticketVars, trackVars>>

\* reader.Read() of the second invocation: the next data line of the same
\* upload, skipped when malformed, else processed in whatever order the
\* map is iterated this time.
ReadAgain ==
    /\ ipc = "reading again"
    /\ cursor < Len(srcFile)
    /\ cursor' = cursor + 1
    /\ LET ln == srcFile[cursor + 1]
       IN  IF ~ln.ok
           THEN UNCHANGED <<csvLine, report, statsMap, origin>>
           ELSE \E ord \in Perms(DOMAIN colMap) :
                  LET st == ProcessCols([report |-> report, statsMap |-> statsMap,
                                         origin |-> origin],
                                        ord, ReaderRecord(ln.rec), cursor + 1)
                  IN  /\ csvLine' = csvLine + 1
                      /\ report' = st.report
                      /\ statsMap' = st.statsMap
                      /\ origin' = st.origin
    /\ UNCHANGED <<ipc, header, pdfText, colMap, pdf15, srcFile, iret, firstReport>>
    /\ UNCHANGED <<riskVars, ticketVars, trackVars>>

\* io.EOF in the second invocation.
FinishAgain ==
    /\ ipc = "reading again"
    /\ cursor = Len(srcFile)
    /\ \E ord \in Perms(DOMAIN colMap) :
         LET withStats == [ report EXCEPT
                 !.ColumnStats = [ i \in 1..Len(ord) |-> statsMap[colMap[ord[i]]] ] ]
         IN  report' = [ withStats EXCEPT !.TextReport = generateTextReport(withStats) ]
    /\ iret' = [value |-> report', err |-> Nil]
    /\ ipc' = "done"
    /\ UNCHANGED <<header, pdfText, colMap, pdf15, statsMap, csvLine, srcFile, origin,
                   firstReport, cursor>>
    /\ UNCHANGED <<riskVars, ticketVars, trackVars>>

NextIMEIAgain == NextIMEI \/ AnalyzeAgain \/ ReadAgain \/ FinishAgain

-----------------------------------------------------------------------------
(* The risk uploads the model draws from.                                  *)

IdA == <<"A">>
IdB == <<"B">>
Doc1 == <<"D", "1">>
Doc2 == <<"D", "2">>
Approved == <<"A", "p", "p", "r", "o", "v", "e", "d">>
Rejected == <<"R", "e", "j", "e", "c", "t", "e", "d">>
approved == <<"a", "p", "p", "r", "o", "v", "e", "d">>
App1 == <<"X", "1">>
App2 == <<"X", "2">>
Empty == <<>>

\* A data line by its logical fields, as written in the upload.
Line(iin, doc, status, app) == [iin |-> iin, doc |-> doc, status |-> status, app |-> app]

BulkLine == Line(IdA, Doc1, Approved, App1)

HeadLines ==
    { BulkLine,
      Line(IdB, Doc1 \o <<" ">>, Rejected, Empty),
      Line(IdA, Doc2, Rejected, App2),
      Line(<<" ">> \o IdB, Doc2, Approved, App1),
      Line(IdA, Empty, approved, App1),
      Line(IdB, <<" ">>, Rejected, App2),
      Line(<<" ", " ">>, Doc1, Approved, App2) }

\* The lines the upload may continue with.
NextLines ==
    IF resolved["appid"] = 0 THEN
        IF consumed < 1 + MaxTail THEN {BulkLine} ELSE {}
    ELSE (IF consumed < MaxHead THEN HeadLines ELSE {})
         \cup (IF consumed - bulkRun <= 1 /\ consumed < 1 + MaxTail
               THEN {BulkLine} ELSE {})

HdrIin    == <<"i", "i", "n">>
HdrIinBin == <<" ", "I", "I", "N", "/", "B", "I", "N">>
HdrBin    == <<"b", "i", "n">>
HdrDoc    == <<"d", "o", "c">>
HdrDocNo  == <<"D", "o", "c", "_", "N", "u", "m", "b", "e", "r", " ">>
HdrStatus == <<"S", "t", "a", "t", "u", "s">>
HdrAppId  == <<"A", "p", "p", "I", "d">>

HdrBomIin == <<BOM>> \o HdrIin
HdrSemi   == HdrIin \o <<";">> \o HdrDoc \o <<";">> \o HdrStatus

RiskHeaders ==
    { <<HdrIin, HdrDoc, HdrStatus, HdrAppId>>,
      <<HdrStatus, HdrDocNo, HdrIinBin>>,
      <<HdrDoc, HdrStatus, HdrAppId>>,
      <<HdrBomIin, HdrDoc, HdrStatus>>,
      <<HdrSemi>> }

-----------------------------------------------------------------------------
(* RiskAnalysisService.AnalyzeCSV: header resolution and row parsing.      *)

requiredCols == <<"iin", "doc", "status">>

altNames(req) ==
    CASE req = "iin"    -> << <<"i", "i", "n", "/", "b", "i", "n">>, <<"i", "i", "n", "_", "b", "i", "n">>,
                              <<"i", "i", "n">>, <<"b", "i", "n">> >>
      [] req = "doc"    -> << <<"d", "o", "c">>, <<"d", "o", "c", "u", "m", "e", "n", "t">>,
                              <<"d", "o", "c", "_", "n", "u", "m", "b", "e", "r">>,
                              <<"d", "o", "c", "u", "m", "e", "n", "t", "_", "n", "u", "m", "b", "e", "r">> >>
      [] req = "status" -> << <<"s", "t", "a", "t", "u", "s">> >>
      [] req = "appid"  -> << <<"a", "p", "p", "i", "d">>, <<"a", "p", "p", "_", "i", "d">> >>

\* colMap[strings.ToLower(strings.TrimSpace(col))] = i : the last column of a
\* name wins; 0 when no column has the name.
ColIndex(hdr, name) ==
    LET hits == { i \in 1..Len(hdr) : ToLower(TrimSpace(hdr[i])) = name }
    IN  IF hits = {} THEN 0 ELSE CHOOSE i \in hits : \A j \in hits : j <= i

\* The index of the first alias of the list that the header has, else 0.
RECURSIVE FirstAlias(_, _)
FirstAlias(hdr, alts) ==
    IF alts = <<>> THEN 0
    ELSE IF ColIndex(hdr, Head(alts)) # 0 THEN ColIndex(hdr, Head(alts))
         ELSE FirstAlias(hdr, Tail(alts))

Resolve(hdr) ==
    [ req \in {"iin", "doc", "status", "appid"} |-> FirstAlias(hdr, altNames(req)) ]

safeGet(record, idx) ==
    IF idx >= 1 /\ idx <= Len(record) THEN TrimSpace(record[idx]) ELSE <<>>

\* The record of a line under a header: each column holds the field its
\* (resolved) name stands for, any other column a filler.
RecordOf(hdr, ln) ==
    [ i \in 1..Len(hdr) |->
        CASE i = Resolve(hdr)["iin"]    -> ln.iin
          [] i = Resolve(hdr)["doc"]    -> ln.doc
          [] i = Resolve(hdr)["status"] -> ln.status
          [] i = Resolve(hdr)["appid"]  -> ln.app
          [] OTHER -> Filler ]

\* row := RiskCSVRow{...}
ParseRow(record, res) ==
    [ IINBIN |-> safeGet(record, res["iin"]),
      DocNum |-> safeGet(record, res["doc"]),
      Status |-> safeGet(record, res["status"]),
      AppID  |-> IF res["appid"] >= 1 THEN safeGet(record, res["appid"]) ELSE <<>> ]

-----------------------------------------------------------------------------
(* The three analyses.  A Go map is ranged over in an unspecified order, so *)
(* each flag list is any ordering of its flags.                            *)

Range(seq) == { seq[i] : i \in 1..Len(seq) }

\* docToIINs
docToIINs(rs) ==
    [ d \in { r.DocNum : r \in { x \in Range(rs) : x.DocNum # <<>> } } |->
        { r.IINBIN : r \in { x \in Range(rs) : x.DocNum = d } } ]

\* The reuse test off by one.
KeepReuseAtLeastOne(iins) == Cardinality(iins) >= 1

\* if len(iins) > 1
KeepReuse(iins) == Cardinality(iins) > 1

\* The loop over docToIINs left after its first flag.
DocumentReuseListsBreak(rs) ==
    LET m    == docToIINs(rs)
        docs == { d \in DOMAIN m : KeepReuse(m[d]) }
    IN  IF docs = {} THEN {<<>>}
        ELSE UNION { { << [ DocNumber |-> d, IINs |-> iins, Count |-> Len(iins) ] >> :
                         iins \in Perms(m[d]) } : d \in docs }

DocumentReuseLists(rs) ==
    LET m    == docToIINs(rs)
        docs == { d \in DOMAIN m : KeepReuse(m[d]) }
    IN  { [ i \in 1..Len(ord) |->
              [ DocNumber |-> ord[i], IINs |-> pick[ord[i]], Count |-> Len(pick[ord[i]]) ] ] :
            ord \in Perms(docs),
            pick \in { f \in [docs -> UNION { Perms(m[d]) : d \in docs }] :
                         \A d \in docs : f[d] \in Perms(m[d]) } }

\* iinFreq
iinFreq(rs) ==
    [ iin \in { r.IINBIN : r \in Range(rs) } |->
        Cardinality({ i \in 1..Len(rs) : rs[i].IINBIN = iin }) ]

yellowThreshold == 5
redThreshold == 10

\* The red test with > for >=.
RiskLevelOfStrict(count) == IF count > redThreshold THEN "red" ELSE "yellow"

RiskLevelOf(count) == IF count >= redThreshold THEN "red" ELSE "yellow"

Flagged(count) == count >= yellowThreshold

HighFrequencyLists(rs) ==
    LET freq == iinFreq(rs)
        hot  == { iin \in DOMAIN freq : Flagged(freq[iin]) }
    IN  { [ i \in 1..Len(ord) |->
              [ IINBIN |-> ord[i], Count |-> freq[ord[i]],
                RiskLevel |-> RiskLevelOf(freq[ord[i]]) ] ] :
            ord \in Perms(hot) }

\* The duplicate test made case-insensitive.
RECURSIVE uniqueStringsFold(_)
uniqueStringsFold(ss) ==
    IF ss = <<>> THEN <<>>
    ELSE LET rest == uniqueStringsFold(SubSeq(ss, 1, Len(ss) - 1))
             last == ss[Len(ss)]
         IN  IF \E i \in 1..Len(rest) : ToLower(rest[i]) = ToLower(last)
             THEN rest ELSE Append(rest, last)

RECURSIVE uniqueStrings(_)
uniqueStrings(ss) ==
    IF ss = <<>> THEN <<>>
    ELSE LET rest == uniqueStrings(SubSeq(ss, 1, Len(ss) - 1))
             last == ss[Len(ss)]
         IN  IF last \in Range(rest) THEN rest ELSE Append(rest, last)

RECURSIVE iinStatuses(_, _)
iinStatuses(rs, iin) ==
    IF rs = <<>> THEN <<>>
    ELSE (IF Head(rs).IINBIN = iin THEN <<Head(rs).Status>> ELSE <<>>)
             \o iinStatuses(Tail(rs), iin)

RECURSIVE iinAppIDs(_, _)
iinAppIDs(rs, iin) ==
    IF rs = <<>> THEN <<>>
    ELSE (IF Head(rs).IINBIN = iin /\ Head(rs).AppID # <<>>
          THEN <<Head(rs).AppID>> ELSE <<>>)
             \o iinAppIDs(Tail(rs), iin)

FlipFlopLists(rs) ==
    LET flips == { iin \in { r.IINBIN : r \in Range(rs) } :
                     Len(uniqueStrings(iinStatuses(rs, iin))) > 1 }
    IN  { [ i \in 1..Len(ord) |->
              [ IINBIN |-> ord[i],
                Statuses |-> uniqueStrings(iinStatuses(rs, ord[i])),
                AppIDs |-> iinAppIDs(rs, ord[i]) ] ] :
            ord \in Perms(flips) }

-----------------------------------------------------------------------------
(* The Risk Profile Store: RiskRepository.Upsert.                          *)

\* The row a statement of profile inserts at time now (id: a fresh UUID).
NewRow(profile, now) ==
    [ ID |-> now, IINBIN |-> profile.IINBIN, RiskLevel |-> profile.RiskLevel,
      FlaggedBy |-> profile.FlaggedBy, Reason |-> profile.Reason,
      CreatedAt |-> now, UpdatedAt |-> now ]

\* The conflicting row replaced by a fresh one (a DELETE and an INSERT).
UpsertReplace(st, profile, now) ==
    { r \in st : r.IINBIN # profile.IINBIN } \cup {NewRow(profile, now)}

\* A plain INSERT, without the ON CONFLICT clause (and without the UNIQUE
\* constraint it relies on).
UpsertNoConflict(st, profile, now) == st \cup {NewRow(profile, now)}

\* The DO UPDATE without flagged_by = EXCLUDED.flagged_by.
UpsertKeepFlaggedBy(st, profile, now) ==
    LET hit == { r \in st : r.IINBIN = profile.IINBIN }
    IN  IF hit # {}
        THEN (st \ hit) \cup
             { [ r EXCEPT !.RiskLevel = profile.RiskLevel,
                          !.Reason    = profile.Reason,
                          !.UpdatedAt = now ] : r \in hit }
        ELSE st \cup {NewRow(profile, now)}

\* INSERT ... ON CONFLICT (iin_bin) DO UPDATE SET risk_level, flagged_by,
\* comment, updated_at: the row of the identifier, if there is one, keeps its
\* id and created_at; the profile's reason is stored in the comment column.
Upsert(st, profile, now) ==
    LET hit == { r \in st : r.IINBIN = profile.IINBIN }
    IN  IF hit # {}
        THEN (st \ hit) \cup
             { [ r EXCEPT !.RiskLevel = profile.RiskLevel,
                          !.FlaggedBy = profile.FlaggedBy,
                          !.Reason    = profile.Reason,
                          !.UpdatedAt = now ] : r \in hit }
        ELSE st \cup {NewRow(profile, now)}

\* DELETE FROM iin_bin_risks WHERE id = $1
Delete(st, id) == { r \in st : r.ID # id }

-----------------------------------------------------------------------------
(* RiskAnalysisService.AnalyzeCSV.                                         *)

Actors == {"admin-1"}

EmptyResult ==
    [ TotalRows |-> 0, UniqueIINs |-> 0, DocumentReuse |-> <<>>,
      HighFrequencyIIN |-> <<>>, FlipFlopStatus |-> <<>>, AutoFlagged |-> 0 ]

NoColumns == [ req \in {"iin", "doc", "status", "appid"} |-> 0 ]

\* The upserts of the first auto-flag loop, in the order of HighFrequencyIIN.
FrequencyUpserts(hf, actor) ==
    [ i \in 1..Len(hf) |->
        [ IINBIN |-> hf[i].IINBIN,
          RiskLevel |-> IF hf[i].RiskLevel = "red" THEN "red" ELSE "yellow",
          FlaggedBy |-> actor,
          Reason |-> [kind |-> "applications detected", n |-> hf[i].Count] ] ]

\* The upserts of the second loop: every identifier of every reuse flag.
RECURSIVE ReuseUpserts(_, _)
ReuseUpserts(dr, actor) ==
    IF dr = <<>> THEN <<>>
    ELSE [ i \in 1..Len(Head(dr).IINs) |->
             [ IINBIN |-> Head(dr).IINs[i],
               RiskLevel |-> "yellow",
               FlaggedBy |-> actor,
               Reason |-> [ kind |-> "document reused", doc |-> Head(dr).DocNumber,
                            n |-> Head(dr).Count ] ] ]
         \o ReuseUpserts(Tail(dr), actor)

\* The two loops the wrong way round.
AutoFlagUpsertsReuseFirst(hf, dr, actor) ==
    ReuseUpserts(dr, actor) \o FrequencyUpserts(hf, actor)

\* Lines 227-256: the frequency loop runs to its end, then the reuse loop.
AutoFlagUpserts(hf, dr, actor) ==
    FrequencyUpserts(hf, actor) \o ReuseUpserts(dr, actor)

\* The counter moved whatever Upsert returned.
CountFlaggedAlways(res, ok) == [res EXCEPT !.AutoFlagged = @ + 1]

\* if err == nil { result.AutoFlagged++ }
CountFlagged(res, ok) == IF ok THEN [res EXCEPT !.AutoFlagged = @ + 1] ELSE res

ErrMissingColumn(req) ==
    [kind |-> "CSV missing required column", column |-> req, tried |-> altNames(req)]

ErrNoRows == [kind |-> "CSV contains no valid data rows"]

\* The loop without its "if !found" return.
UnresolvedIgnored(res) == <<>>

\* The required columns no alias of which the header has, in the order of
\* requiredCols.
Unresolved(res) == SelectSeq(requiredCols, LAMBDA req : res[req] = 0)

Callers == {"admin-1", "admin-2"}

InitRisk ==
    /\ rpc = "start"
    /\ rheader = <<>>
    /\ resolved = NoColumns
    /\ rows = <<>>
    /\ consumed = 0
    /\ bulkRun = 0
    /\ result = EmptyResult
    /\ pending = <<>>
    /\ flaggedBy = "nobody"
    /\ store = {}
    /\ clock = 0
    /\ rret = NoReturn
    /\ log = <<>>
    /\ detected = Nil
    /\ run = 1
    /\ firstResult = Nil
    /\ firstStore = {}
    /\ inflight = [c \in Callers |-> <<>>]

\* csvReader.Read() on an empty upload: "reading CSV header".
RiskNoHeader ==
    /\ rpc = "start"
    /\ rpc' = "error"
    /\ rret' = [value |-> Nil, err |-> ErrReadingHeader]
    /\ \E actor \in Actors : flaggedBy' = actor
    /\ UNCHANGED <<rheader, resolved, rows, consumed, bulkRun, result, pending, store, clock>>
    /\ UNCHANGED <<log, detected, run, firstResult, firstStore, inflight>>
    /\ UNCHANGED <<imeiVars, ticketVars, trackVars>>

\* Lines 79-118: the header is read and the logical columns are resolved;
\* the first required column without an alias in the header ends the call.
RiskStart ==
    /\ rpc = "start"
    /\ \E rawHeader \in RiskHeaders, actor \in Actors :
         LET hdr == ReaderRecord(rawHeader)
             res == Resolve(hdr)
         IN  /\ rheader' = hdr
             /\ flaggedBy' = actor
             /\ IF Unresolved(res) # <<>>
                THEN /\ rpc' = "error"
                     /\ rret' = [value |-> Nil, err |-> ErrMissingColumn(Head(Unresolved(res)))]
                     /\ UNCHANGED resolved
                ELSE /\ rpc' = "reading"
                     /\ resolved' = res
                     /\ UNCHANGED rret
    /\ UNCHANGED <<rows, consumed, bulkRun, result, pending, store, clock>>
    /\ UNCHANGED <<log, detected, run, firstResult, firstStore, inflight>>
    /\ UNCHANGED <<imeiVars, ticketVars, trackVars>>

\* csvReader.Read() returns an error other than io.EOF: continue.
RiskReadBadRecord ==
    /\ rpc = "reading"
    /\ consumed < MaxHead
    /\ consumed' = consumed + 1
    /\ bulkRun' = 0
    /\ UNCHANGED <<rpc, rheader, resolved, rows, result, pending, flaggedBy, store, clock>>
    /\ UNCHANGED <<rret, log, detected, run, firstResult, firstStore, inflight>>
    /\ UNCHANGED <<imeiVars, ticketVars, trackVars>>

\* The reading step without the test of the identifier.
RiskReadRecordKeepAll ==
    /\ rpc = "reading"
    /\ \E ln \in NextLines :
         LET row == ParseRow(ReaderRecord(RecordOf(rheader, ln)), resolved)
         IN  /\ rows' = Append(rows, row)
             /\ bulkRun' = IF ln = BulkLine THEN bulkRun + 1 ELSE 0
    /\ consumed' = consumed + 1
    /\ UNCHANGED <<rpc, rheader, resolved, result, pending, flaggedBy, store, clock>>
    /\ UNCHANGED <<rret, log, detected, run, firstResult, firstStore, inflight>>
    /\ UNCHANGED <<imeiVars, ticketVars, trackVars>>

\* csvReader.Read() returns a record: the row is kept unless its identifier
\* is empty.
RiskReadRecord ==
    /\ rpc = "reading"
    /\ \E ln \in NextLines :
         LET row == ParseRow(ReaderRecord(RecordOf(rheader, ln)), resolved)
         IN  /\ rows' = IF row.IINBIN = <<>> THEN rows ELSE Append(rows, row)
             /\ bulkRun' = IF ln = BulkLine THEN bulkRun + 1 ELSE 0
    /\ consumed' = consumed + 1
    /\ UNCHANGED <<rpc, rheader, resolved, result, pending, flaggedBy, store, clock>>
    /\ UNCHANGED <<rret, log, detected, run, firstResult, firstStore, inflight>>
    /\ UNCHANGED <<imeiVars, ticketVars, trackVars>>

\* io.EOF with no row kept: "CSV contains no valid data rows".
RiskNoRows ==
    /\ rpc = "reading"
    /\ Len(rows) = 0
    /\ rpc' = "error"
    /\ rret' = [value |-> Nil, err |-> ErrNoRows]
    /\ UNCHANGED <<rheader, resolved, rows, consumed, bulkRun, result, pending, flaggedBy, store, clock>>
    /\ UNCHANGED <<log, detected, run, firstResult, firstStore, inflight>>
    /\ UNCHANGED <<imeiVars, ticketVars, trackVars>>

\* The analyses followed by a third loop that flags the flip-flop list too.
DetectFlipFlopFlagged ==
    \E dr \in DocumentReuseLists(rows), hf \in HighFrequencyLists(rows),
       ff \in FlipFlopLists(rows) :
        /\ result' = [ TotalRows |-> Len(rows),
                       UniqueIINs |-> Cardinality({ r.IINBIN : r \in Range(rows) }),
                       DocumentReuse |-> dr,
                       HighFrequencyIIN |-> hf,
                       FlipFlopStatus |-> ff,
                       AutoFlagged |-> 0 ]
        /\ detected' = result'
        /\ pending' = AutoFlagUpserts(hf, dr, flaggedBy)
                        \o [ i \in 1..Len(ff) |->
                               [ IINBIN |-> ff[i].IINBIN,
                                 RiskLevel |-> "yellow",
                                 FlaggedBy |-> flaggedBy,
                                 Reason |-> [kind |-> "status changed"] ] ]

\* Lines 150-223, the three analyses over rows, and the upserts the two
\* auto-flag loops will issue for their flags.
Detect ==
    \E dr \in DocumentReuseLists(rows), hf \in HighFrequencyLists(rows),
       ff \in FlipFlopLists(rows) :
        /\ result' = [ TotalRows |-> Len(rows),
                       UniqueIINs |-> Cardinality({ r.IINBIN : r \in Range(rows) }),
                       DocumentReuse |-> dr,
                       HighFrequencyIIN |-> hf,
                       FlipFlopStatus |-> ff,
                       AutoFlagged |-> 0 ]
        /\ detected' = result'
        /\ pending' = AutoFlagUpserts(hf, dr, flaggedBy)

\* io.EOF with rows kept.
RiskDetect ==
    /\ rpc = "reading"
    /\ Len(rows) > 0
    /\ Detect
    /\ rpc' = "flagging"
    /\ UNCHANGED <<rheader, resolved, rows, consumed, bulkRun, flaggedBy, store, clock>>
    /\ UNCHANGED <<rret, log, run, firstResult, firstStore, inflight>>
    /\ UNCHANGED <<imeiVars, ticketVars, trackVars>>

\* One s.riskRepo.Upsert of the auto-flag loops, returning nil (ok) or an
\* error; only a success is counted, and the loops go on either way.
AutoFlagStep(ok) ==
    /\ rpc = "flagging"
    /\ pending # <<>>
    /\ IF ok
       THEN /\ store' = Upsert(store, Head(pending), clock + 1)
            /\ clock' = clock + 1
       ELSE UNCHANGED <<store, clock>>
    /\ result' = CountFlagged(result, ok)
    /\ log' = Append(log, [op |-> "upsert", profile |-> Head(pending), ok |-> ok])
    /\ pending' = Tail(pending)
    /\ UNCHANGED <<rpc, rheader, resolved, rows, consumed, bulkRun, flaggedBy>>
    /\ UNCHANGED <<rret, detected, run, firstResult, firstStore, inflight>>
    /\ UNCHANGED <<imeiVars, ticketVars, trackVars>>

RiskUpsert == AutoFlagStep(TRUE)

RiskUpsertFails == AutoFlagStep(FALSE)

\* return result, nil
RiskReturn ==
    /\ rpc = "flagging"
    /\ pending = <<>>
    /\ rpc' = "done"
    /\ rret' = [value |-> result, err |-> Nil]
    /\ UNCHANGED <<rheader, resolved, rows, consumed, bulkRun, result, pending, flaggedBy, store, clock>>
    /\ UNCHANGED <<log, detected, run, firstResult, firstStore, inflight>>
    /\ UNCHANGED <<imeiVars, ticketVars, trackVars>>

NextRisk ==
    \/ RiskNoHeader \/ RiskStart \/ RiskReadBadRecord \/ RiskReadRecord
    \/ RiskNoRows \/ RiskDetect \/ RiskUpsert \/ RiskUpsertFails \/ RiskReturn

\* A second invocation of AnalyzeCSV on the same upload by the same actor,
\* after the first has returned: lines 75-148 give the same rows; the
\* analyses run again, over maps iterated in whatever order this time.
RiskRerun ==
    /\ rpc = "done"
    /\ run = 1
    /\ run' = 2
    /\ firstResult' = result
    /\ firstStore' = store
    /\ Detect
    /\ rret' = NoReturn
    /\ rpc' = "flagging"
    /\ UNCHANGED <<rheader, resolved, rows, consumed, bulkRun, flaggedBy, store, clock>>
    /\ UNCHANGED <<log, inflight>>
    /\ UNCHANGED <<imeiVars, ticketVars, trackVars>>

\* Two invocations, one after the other, against a database that does not
\* fail.
NextRerun ==
    \/ RiskNoHeader \/ RiskStart \/ RiskReadBadRecord \/ RiskReadRecord
    \/ RiskNoRows \/ RiskDetect \/ RiskUpsert \/ RiskReturn \/ RiskRerun

-----------------------------------------------------------------------------

-----------------------------------------------------------------------------
(* The candidate extraction of Analyze (lines 55-56) on its own.           *)

MaxPieces == 3

Run16 == Run15a \o <<"7">>

\* A declaration text is put together from at most MaxPieces of these: digit
\* runs of 14, 15 and 16 characters, a letter, an underscore, a hyphen, a
\* space.
Pieces == { D14, Run15a, Run15b, Run16, <<"a">>, <<"_">>, <<"-">>, <<" ">> }

RECURSIVE Concat(_)
Concat(ps) == IF ps = <<>> THEN <<>> ELSE Head(ps) \o Concat(Tail(ps))

Blobs == { Concat(ps) : ps \in UNION { [1..n -> Pieces] : n \in 0..MaxPieces } }

\* Analyze is called with pdfTextContent.
ReceiveText ==
    /\ ipc = "start"
    /\ pdfText = <<>>
    /\ \E text \in Blobs \ {<<>>} : pdfText' = text
    /\ UNCHANGED <<ipc, header, colMap, pdf15, statsMap, csvLine, report, srcFile, origin,
                   iret, firstReport, cursor>>
    /\ UNCHANGED <<riskVars, ticketVars, trackVars>>

\* pdf15Digits := regex15Digits.FindAllString(pdfTextContent, -1)
ExtractCandidates ==
    /\ ipc = "start"
    /\ pdf15' = FindAllString(pdfText)
    /\ ipc' = "extracted"
    /\ UNCHANGED <<header, pdfText, colMap, statsMap, csvLine, report, srcFile, origin,
                   iret, firstReport, cursor>>
    /\ UNCHANGED <<riskVars, ticketVars, trackVars>>

NextExtract == ReceiveText \/ ExtractCandidates

-----------------------------------------------------------------------------
(* The support tickets: TicketHandler, TicketService, TicketRepository.    *)

MaxTickets == 1

RoleAdmin       == "admin"
RolePaidUser    == "paid_user"
RoleATSStaff    == "ats_staff"
RoleCustoms     == "customs_staff"
RoleMarketplace == "marketplace_staff"

UserRoles == {RoleAdmin, RolePaidUser, RoleATSStaff, RoleCustoms, RoleMarketplace}

TicketStatusToDo       == "to_do"
TicketStatusInProgress == "in_progress"
TicketStatusCompleted  == "completed"

PriorityLow    == "low"
PriorityMedium == "medium"
PriorityHigh   == "high"

\* middleware.RequireRole(roles...): the handler runs for a caller whose
\* role is one of roles, any other caller is refused.
RequireRole(roles, role) == role \in roles

createMw == {RoleATSStaff, RoleAdmin}
viewMw   == {RoleATSStaff, RoleCustoms, RoleAdmin}
updateMw == {RoleCustoms, RoleAdmin}

Response(code, message) == [code |-> code, message |-> message]

Refused == Response(403, "forbidden")

\* The request bodies the model draws from.
CompleteInput ==
    [ IIN |-> "123456789012", FullName |-> "Test Tester", SupportTicketID |-> "SUP-101",
      ApplicationNumber |-> "APP-202", DocumentNumber |-> "DOC-303",
      RejectionReason |-> "Missing signature", SupportComment |-> "", Priority |-> "high" ]

CreateInputs ==
    { CompleteInput,
      [CompleteInput EXCEPT !.SupportComment = "note", !.Priority = "urgent"],
      [CompleteInput EXCEPT !.RejectionReason = ""] }

StatusValues == {TicketStatusToDo, TicketStatusInProgress, TicketStatusCompleted, "done"}

FieldValues == {"support_comment", "customs_comment", "status"}

CommentValues == {"note"}

\* The users a request names as assignee.
Officers == {[kind |-> "uuid", id |-> "officer-1"]}

\* The ticket IDs of requests: those of the rows, and one of no row.
TicketIDs == 1..(Len(tickets) + 1)

\* TicketRepository: one SQL statement each, on a database that executes
\* it. The ID a row was created with is its position.
RepoCreate(ts, t) == [tickets |-> Append(ts, t), err |-> Nil]

RepoUpdateStatus(ts, id, status) ==
    IF id \notin DOMAIN ts THEN [tickets |-> ts, err |-> [kind |-> "ticket not found"]]
    ELSE [tickets |-> [ts EXCEPT ![id].Status = status], err |-> Nil]

RepoUpdateComment(ts, id, field, value) ==
    IF field \notin {"support_comment", "customs_comment"}
    THEN [tickets |-> ts, err |-> [kind |-> "invalid comment field"]]
    ELSE IF id \notin DOMAIN ts THEN [tickets |-> ts, err |-> [kind |-> "ticket not found"]]
    ELSE IF field = "support_comment"
         THEN [tickets |-> [ts EXCEPT ![id].SupportComment = value], err |-> Nil]
         ELSE [tickets |-> [ts EXCEPT ![id].CustomsComment = value], err |-> Nil]

RepoAssignTo(ts, id, assigneeID) ==
    IF id \notin DOMAIN ts THEN [tickets |-> ts, err |-> [kind |-> "ticket not found"]]
    ELSE [tickets |-> [ts EXCEPT ![id].AssignedTo = assigneeID], err |-> Nil]

\* TicketService.Create: the required fields, the priority, status to_do.
RequiredMissing(input) ==
    IF input.IIN = "" THEN "iin"
    ELSE IF input.FullName = "" THEN "full_name"
    ELSE IF input.SupportTicketID = "" THEN "support_ticket_id"
    ELSE IF input.ApplicationNumber = "" THEN "application_number"
    ELSE IF input.DocumentNumber = "" THEN "document_number"
    ELSE IF input.RejectionReason = "" THEN "rejection_reason"
    ELSE ""

PriorityOf(p) ==
    IF p \in {PriorityLow, PriorityMedium, PriorityHigh} THEN p ELSE PriorityMedium

NewTicket(input, createdBy) ==
    [ SupportComment |-> input.SupportComment,
      CustomsComment |-> "",
      Status         |-> TicketStatusToDo,
      Priority       |-> PriorityOf(input.Priority),
      AssignedTo     |-> Nil ]

ServiceCreate(ts, input, createdBy) ==
    IF RequiredMissing(input) # ""
    THEN [tickets |-> ts, err |-> [kind |-> "is required", field |-> RequiredMissing(input)]]
    ELSE RepoCreate(ts, NewTicket(input, createdBy))

\* The status test that lets every value through.
ValidStatusAny(status) == TRUE

\* switch ts { case to_do, in_progress, completed: default: return error }
ValidStatus(status) ==
    status \in {TicketStatusToDo, TicketStatusInProgress, TicketStatusCompleted}

ServiceUpdateStatus(ts, id, status) ==
    IF ~ValidStatus(status)
    THEN [tickets |-> ts, err |-> [kind |-> "invalid status", status |-> status]]
    ELSE RepoUpdateStatus(ts, id, status)

ServiceUpdateComment(ts, id, field, value) ==
    IF field # "support_comment" /\ field # "customs_comment"
    THEN [tickets |-> ts, err |-> [kind |-> "invalid field", field |-> field]]
    ELSE RepoUpdateComment(ts, id, field, value)

ServiceAssign(ts, id, assigneeID) == RepoAssignTo(ts, id, assigneeID)

\* The handlers' translation of the service's error into a response: the
\* errors named in bad are answered 400, every other error 500.
Answer(out, bad, success) ==
    IF out.err = Nil THEN success
    ELSE IF out.err.kind \in bad THEN Response(400, out.err.kind)
    ELSE Response(500, out.err.kind)

InitTickets ==
    /\ tickets = <<>>
    /\ tresp = Nil

\* What a request leaves behind: the table and the response.
Served(out, resp) ==
    /\ tickets' = out.tickets
    /\ tresp' = resp
    /\ UNCHANGED <<imeiVars, riskVars, trackVars>>

\* POST /api/v1/tickets
Create(role, input) ==
    /\ Len(tickets) < MaxTickets
    /\ IF ~RequireRole(createMw, role)
       THEN Served([tickets |-> tickets], Refused)
       ELSE LET out == ServiceCreate(tickets, input, role)
            IN  Served(out, Answer(out, {"is required"}, Response(201, "ticket created")))

\* PATCH /api/v1/tickets/{id}/status
UpdateStatus(role, id, status) ==
    IF ~RequireRole(updateMw, role)
    THEN Served([tickets |-> tickets], Refused)
    ELSE LET out == ServiceUpdateStatus(tickets, id, status)
         IN  Served(out, Answer(out, {"invalid status"}, Response(200, "status updated")))

\* PATCH /api/v1/tickets/{id}/comment
UpdateComment(role, id, field, value) ==
    IF ~RequireRole(viewMw, role)
    THEN Served([tickets |-> tickets], Refused)
    ELSE LET out == ServiceUpdateComment(tickets, id, field, value)
         IN  Served(out, Answer(out, {"invalid field"}, Response(200, "comment updated")))

\* PATCH /api/v1/tickets/{id}/assign
Assign(role, id, assigneeID) ==
    IF ~RequireRole(updateMw, role)
    THEN Served([tickets |-> tickets], Refused)
    ELSE LET out == ServiceAssign(tickets, id, assigneeID)
         IN  Served(out, Answer(out, {}, Response(200, "ticket assigned")))

\* The requests of a caller with the given role.
RequestBy(role) ==
    \/ \E input \in CreateInputs : Create(role, input)
    \/ \E id \in TicketIDs, status \in StatusValues :
           UpdateStatus(role, id, status)
    \/ \E id \in TicketIDs, field \in FieldValues, value \in CommentValues :
           UpdateComment(role, id, field, value)
    \/ \E id \in TicketIDs, assigneeID \in Officers :
           Assign(role, id, assigneeID)

NextTickets == \E role \in UserRoles : RequestBy(role)

-----------------------------------------------------------------------------
(* TrackingService.Track.                                                  *)

MaxTrackers == 2

\* The Tracker implementations, by Provider().
Providers == {"CDEK", "Kazpost"}

\* NewTrackingService(trackers...): any list of at most MaxTrackers of them;
\* main.go passes CDEK, Kazpost.
TrackerLists == UNION { [1..n -> Providers] : n \in 0..MaxTrackers }

TrackNumbers ==
    { <<"1", "2", "3">>, <<"K", "Z", "1">>, <<"1", "2", "a">>, <<"1", " ", "2">>, <<>> }

\* A []models.TrackingEvent: nil, or a list of events.
NilSlice == [nil |-> TRUE, elems |-> <<>>]

Slice(elems) == [nil |-> FALSE, elems |-> elems]

\* What t.Track(ctx, trackNumber) of a provider may return: an error, a nil
\* list, an empty list, events.
TrackOutcomes(provider) ==
    { [events |-> NilSlice, err |-> [kind |-> "request failed", provider |-> provider]],
      [events |-> NilSlice, err |-> Nil],
      [events |-> Slice(<<>>), err |-> Nil],
      [events |-> Slice(<<[Source |-> provider, StatusCode |-> "HAND"]>>), err |-> Nil] }

\* len(events), 0 for a nil slice
LenEvents(events) == Len(events.elems)

\* numericOnly = ^\d+$
numericOnly(s) == s # <<>> /\ \A i \in 1..Len(s) : s[i] \in Digits

TrackingResult(track, events, provider, url) ==
    [TrackNumber |-> track, Events |-> events, Provider |-> provider, ExternalURL |-> url]

ErrNoTrackingData(track) == [kind |-> "no tracking data found", track |-> track]

\* The end of the earlier Track (part_001): an error whatever the number.
AfterLoopNoRedirect(track) == [value |-> Nil, err |-> ErrNoTrackingData(track)]

\* Lines 61-72: what Track returns when the loop ends without a result.
AfterLoop(track) ==
    IF numericOnly(track)
    THEN [ value |-> TrackingResult(track, NilSlice, "CDEK",
                        <<"https://www.cdek.ru/ru/tracking/?order_id=">> \o track),
           err |-> Nil ]
    ELSE [value |-> Nil, err |-> ErrNoTrackingData(track)]

InitTrack ==
    /\ trackers = <<>>
    /\ trackNumber = <<>>
    /\ tpc = "start"
    /\ next = 1
    /\ queried = <<>>
    /\ tret = NoReturn

\* The service is constructed with its providers.
NewTrackingService ==
    /\ tpc = "start"
    /\ \E ts \in TrackerLists : trackers' = ts
    /\ tpc' = "ready"
    /\ UNCHANGED <<trackNumber, next, queried, tret>>
    /\ UNCHANGED <<imeiVars, riskVars, ticketVars>>

\* Track is called.
TrackCall ==
    /\ tpc = "ready"
    /\ \E track \in TrackNumbers : trackNumber' = track
    /\ tpc' = "querying"
    /\ UNCHANGED <<trackers, next, queried, tret>>
    /\ UNCHANGED <<imeiVars, riskVars, ticketVars>>

\* One round of the loop: the next provider is queried; an error or a list
\* without events moves on to the provider after it, events are returned.
QueryProvider ==
    /\ tpc = "querying"
    /\ next <= Len(trackers)
    /\ \E out \in TrackOutcomes(trackers[next]) :
         /\ queried' = Append(queried, [provider |-> trackers[next], out |-> out])
         /\ IF out.err = Nil /\ LenEvents(out.events) > 0
            THEN /\ tret' = [ value |-> TrackingResult(trackNumber, out.events,
                                                       trackers[next], <<>>),
                              err |-> Nil ]
                 /\ tpc' = "done"
                 /\ UNCHANGED next
            ELSE /\ next' = next + 1
                 /\ UNCHANGED <<tret, tpc>>
    /\ UNCHANGED <<trackers, trackNumber>>
    /\ UNCHANGED <<imeiVars, riskVars, ticketVars>>

\* The loop has run through the providers.
TrackNoData ==
    /\ tpc = "querying"
    /\ next > Len(trackers)
    /\ tret' = AfterLoop(trackNumber)
    /\ tpc' = "done"
    /\ UNCHANGED <<trackers, trackNumber, next, queried>>
    /\ UNCHANGED <<imeiVars, riskVars, ticketVars>>

NextTrack == NewTrackingService \/ TrackCall \/ QueryProvider \/ TrackNoData

-----------------------------------------------------------------------------
(* The earlier IMEIService.Analyze (imei_service.go): found is decided by  *)
(* the candidates, and there is no text report.  It is run on the upload   *)
(* and the text of a finished run of the later version.                    *)

\* The earlier version is run on the uploads of at most MaxCompared data
\* lines.
MaxCompared == 1

\* The search that keeps the last candidate with the prefix.
MatchPrefixLast(candidates, imei14) ==
    LET seq == LastWithPrefix(candidates, imei14)
    IN  [found |-> seq # <<>>, matched |-> seq]

\* Lines 99-108: matched is the first candidate that starts with the value,
\* found is matched != "".
MatchPrefix(candidates, imei14) ==
    LET seq == FirstWithPrefix(candidates, imei14)
    IN  [found |-> seq # <<>>, matched |-> seq]

\* One run of the inner loop body; st = [report, statsMap, csvLine].
PrefixCell(st, colIdx, record) ==
    LET colName == colMap[colIdx]
        imei    == IF colIdx > Len(record) THEN <<>> ELSE TrimSpace(record[colIdx])
        imei14  == Normalize(imei)
        m       == MatchPrefix(pdf15, imei14)
        res     == [ CSVLine     |-> st.csvLine,
                     Column      |-> colName,
                     IMEI14      |-> imei14,
                     MatchedIMEI |-> m.matched,
                     Found       |-> m.found ]
    IN  IF colIdx > Len(record) \/ imei = <<>> \/ Skipped(imei14) THEN st
        ELSE [ st EXCEPT
                 !.report.TotalIMEIs   = @ + 1,
                 !.report.TotalFound   = IF m.found THEN @ + 1 ELSE @,
                 !.report.TotalMissing = IF m.found THEN @ ELSE @ + 1,
                 !.report.Results      = Append(@, res),
                 !.statsMap[colName]   = Tally(@, m.found) ]

RECURSIVE PrefixCols(_, _, _)
PrefixCols(st, ord, record) ==
    IF ord = <<>> THEN st
    ELSE PrefixCols(PrefixCell(st, Head(ord), record), Tail(ord), record)

\* The reading loop over the data lines, ords[k] being the order in which
\* colMap is ranged over for line k: a malformed line is passed over, a
\* record counted and processed.
RECURSIVE PrefixRows(_, _, _)
PrefixRows(st, lines, ords) ==
    IF lines = <<>> THEN st
    ELSE IF ~Head(lines).ok THEN PrefixRows(st, Tail(lines), Tail(ords))
    ELSE PrefixRows(PrefixCols([st EXCEPT !.csvLine = @ + 1], Head(ords),
                               ReaderRecord(Head(lines).rec)),
                    Tail(lines), Tail(ords))

\* The earlier Analyze, called with the upload and the text the later one
\* has just reported on.
AnalyzePrefix ==
    /\ ipc = "done"
    /\ firstReport = Nil
    /\ Len(srcFile) <= MaxCompared
    /\ firstReport' = report
    /\ \E ords \in [1..Len(srcFile) -> Perms(DOMAIN colMap)], last \in Perms(DOMAIN colMap) :
         LET st == PrefixRows([ report   |-> EmptyReport,
                                statsMap |-> [ n \in DOMAIN statsMap |-> ZeroStats(n) ],
                                csvLine  |-> 1 ],
                              srcFile, ords)
         IN  report' = [ st.report EXCEPT
                 !.ColumnStats = [ i \in 1..Len(last) |-> st.statsMap[colMap[last[i]]] ] ]
    /\ iret' = [value |-> report', err |-> Nil]
    /\ UNCHANGED <<ipc, header, pdfText, colMap, pdf15, statsMap, csvLine, srcFile, origin,
                   cursor>>
    /\ UNCHANGED <<riskVars, ticketVars, trackVars>>

NextVersions == NextIMEI \/ AnalyzePrefix

Init == InitIMEI /\ InitRisk /\ InitTickets /\ InitTrack

SpecIMEI == Init /\ [][NextIMEI]_vars

SpecIMEIAgain == Init /\ [][NextIMEIAgain]_vars

SpecRisk == Init /\ [][NextRisk]_vars

SpecRerun == Init /\ [][NextRerun]_vars

SpecExtract == Init /\ [][NextExtract]_vars

\* Concurrent callers of the repository: runs of AnalyzeCSV, each at its
\* auto-flag loops with the flags of its own batch, and deletions.
SampleFrequency == [IINBIN |-> IdA, Count |-> redThreshold, RiskLevel |-> "red"]

SampleReuse == [DocNumber |-> Doc1, IINs |-> <<IdA, IdB>>, Count |-> 2]

Batches(actor) ==
    { AutoFlagUpserts(hf, dr, actor) :
        hf \in {<<>>, <<SampleFrequency>>}, dr \in {<<>>, <<SampleReuse>>} } \ {<<>>}

RECURSIVE Outstanding(_)
Outstanding(cs) ==
    IF cs = {} THEN 0
    ELSE LET c == CHOOSE x \in cs : TRUE
         IN  Len(inflight[c]) + Outstanding(cs \ {c})

\* A run of AnalyzeCSV by caller c reaches line 227 with its flags.
CallerBegins(c) ==
    /\ inflight[c] = <<>>
    /\ \E batch \in Batches(c) :
         /\ Len(log) + Outstanding(Callers) + Len(batch) <= MaxCalls
         /\ inflight' = [inflight EXCEPT ![c] = batch]
    /\ UNCHANGED <<rpc, rheader, resolved, rows, consumed, bulkRun, result, pending,
                   flaggedBy, store, clock, rret, log, detected, run, firstResult,
                   firstStore>>
    /\ UNCHANGED <<imeiVars, ticketVars, trackVars>>

\* The next Upsert of caller c: one statement, executed by the database as
\* a whole, or refused.
CallerUpsert(c, ok) ==
    /\ inflight[c] # <<>>
    /\ IF ok
       THEN /\ store' = Upsert(store, Head(inflight[c]), clock + 1)
            /\ clock' = clock + 1
       ELSE UNCHANGED <<store, clock>>
    /\ log' = Append(log, [op |-> "upsert", profile |-> Head(inflight[c]), ok |-> ok])
    /\ inflight' = [inflight EXCEPT ![c] = Tail(@)]
    /\ UNCHANGED <<rpc, rheader, resolved, rows, consumed, bulkRun, result, pending,
                   flaggedBy, rret, detected, run, firstResult, firstStore>>
    /\ UNCHANGED <<imeiVars, ticketVars, trackVars>>

\* RiskRepository.Delete of the row with the given id (0: the id of no
\* row, "risk profile not found").
DeleteProfile ==
    /\ Len(log) + Outstanding(Callers) < MaxCalls
    /\ \E id \in { r.ID : r \in store } \cup {0} :
         /\ store' = Delete(store, id)
         /\ log' = Append(log, [op |-> "delete", id |-> id,
                                ok |-> \E r \in store : r.ID = id])
    /\ UNCHANGED <<rpc, rheader, resolved, rows, consumed, bulkRun, result, pending,
                   flaggedBy, clock, rret, detected, run, firstResult, firstStore,
                   inflight>>
    /\ UNCHANGED <<imeiVars, ticketVars, trackVars>>

NextStore ==
    \/ \E c \in Callers : CallerBegins(c)
    \/ \E c \in Callers : CallerUpsert(c, TRUE)
    \/ \E c \in Callers : CallerUpsert(c, FALSE)
    \/ DeleteProfile

SpecStore == Init /\ [][NextStore]_vars

\* The two pipelines share no state; a session that uploads to both is
\* taken with the IMEI upload following a refused risk upload.
SessionAnalyzeNoHeader == rpc = "error" /\ AnalyzeNoHeader

SessionAnalyzeStart == rpc = "error" /\ AnalyzeStart

NextUploads ==
    \/ RiskNoHeader \/ RiskStart \/ RiskReadBadRecord \/ RiskReadRecord
    \/ RiskNoRows \/ RiskDetect
    \/ SessionAnalyzeNoHeader \/ SessionAnalyzeStart

SpecTickets == Init /\ [][NextTickets]_vars

SpecTrack == Init /\ [][NextTrack]_vars

SpecVersions == Init /\ [][NextVersions]_vars

\* The profiles a run of AnalyzeCSV by another administrator writes for a
\* reuse flag.
OtherCaller == "admin-2"

OtherProfiles == Range(AutoFlagUpserts(<<>>, <<SampleReuse>>, OtherCaller))

\* The store is shared: before the auto-flag loops of this run start,
\* another caller's Upsert is committed.
OtherCallerUpsert ==
    /\ rpc = "flagging"
    /\ log = <<>>
    /\ store = {}
    /\ \E profile \in OtherProfiles :
         /\ store' = Upsert(store, profile, clock + 1)
         /\ log' = Append(log, [op |-> "upsert", profile |-> profile, ok |-> TRUE])
    /\ clock' = clock + 1
    /\ UNCHANGED <<rpc, rheader, resolved, rows, consumed, bulkRun, result, pending,
                   flaggedBy, rret, detected, run, firstResult, firstStore, inflight>>
    /\ UNCHANGED <<imeiVars, ticketVars, trackVars>>

NextShared == NextRisk \/ OtherCallerUpsert

SpecShared == Init /\ [][NextShared]_vars

SpecUploads == Init /\ [][NextUploads]_vars



-----------------------------------------------------------------------------
(* Properties of IMEIService.Analyze.                                      *)

Results == report.Results

\* The raw cell of the upload that result k was computed from.
SourceCell(k) == srcFile[origin[k].line].rec[origin[k].col]

\* The cells of recognized IMEI columns, in records the reader parsed, whose
\* trimmed value has at least 14 characters.
LongCells ==
    { lc \in (1..Len(srcFile)) \X (DOMAIN colMap) :
        /\ srcFile[lc[1]].ok
        /\ Len(TrimSpace(srcFile[lc[1]].rec[lc[2]])) >= IMEILen }

ShortCells ==
    { lc \in (1..Len(srcFile)) \X (DOMAIN colMap) :
        /\ srcFile[lc[1]].ok
        /\ Len(TrimSpace(srcFile[lc[1]].rec[lc[2]])) < IMEILen }

RECURSIVE SumOf(_, _)
SumOf(stats, field) ==
    IF stats = <<>> THEN 0
    ELSE (CASE field = "Total"   -> Head(stats).Total
            [] field = "Found"   -> Head(stats).Found
            [] field = "Missing" -> Head(stats).Missing) + SumOf(Tail(stats), field)

C2_MatchedSequence ==
    \A k \in 1..Len(Results) :
        Results[k].Found =>
            LET cands == FindAllString(pdfText)
                hits  == { i \in 1..Len(cands) : HasPrefix(cands[i], Results[k].IMEI14) }
            IN  IF hits = {}
                THEN Results[k].MatchedIMEI = Placeholder
                ELSE Results[k].MatchedIMEI =
                         cands[CHOOSE i \in hits : \A j \in hits : i <= j]

\* Two candidates share the prefix and the earlier, different one is reported.
C2_Witness ==
    \E k \in 1..Len(Results) :
        LET cands == FindAllString(pdfText)
        IN  /\ Results[k].Found
            /\ Len(cands) >= 2
            /\ HasPrefix(cands[1], Results[k].IMEI14)
            /\ HasPrefix(cands[2], Results[k].IMEI14)
            /\ cands[1] # cands[2]
            /\ Results[k].MatchedIMEI = cands[1]

\* C3: the results are exactly the cells of at least 14 characters; a shorter
\* (or empty) cell yields no result and moves no aggregate or per-column counter.
C3_ShortCellsOmitted ==
    /\ { <<origin[k].line, origin[k].col>> : k \in 1..Len(origin) } = LongCells
    /\ Len(Results) = Cardinality(LongCells)
    /\ Len(origin) = Len(Results)
    /\ report.TotalIMEIs = Cardinality(LongCells)
    /\ report.TotalFound + report.TotalMissing = Cardinality(LongCells)
    /\ \A n \in DOMAIN statsMap :
           LET mine == { lc \in LongCells : colMap[lc[2]] = n }
           IN  /\ statsMap[n].Total = Cardinality(mine)
               /\ statsMap[n].Found + statsMap[n].Missing = Cardinality(mine)

\* A returned report whose upload held an empty and a 13-character cell next
\* to cells that were processed.
C3_Witness ==
    /\ ipc = "done"
    /\ \E lc \in ShortCells : TrimSpace(srcFile[lc[1]].rec[lc[2]]) = <<>>
    /\ \E lc \in ShortCells : Len(TrimSpace(srcFile[lc[1]].rec[lc[2]])) = IMEILen - 1
    /\ Len(Results) > 0

\* C4: the normalized value of every result has exactly 14 characters and is
\* the first 14 characters of the trimmed cell.
C4_NormalizedPrefix ==
    \A k \in 1..Len(Results) :
        /\ Len(Results[k].IMEI14) = IMEILen
        /\ Results[k].IMEI14 = SubSeq(TrimSpace(SourceCell(k)), 1, IMEILen)

\* A result from a padded cell whose discarded tail is not numeric, and one
\* whose discarded tail is the check digit.
C4_Witness ==
    /\ \E k \in 1..Len(Results) : SourceCell(k) = Cell15x /\ Results[k].IMEI14 = D14
    /\ \E k \in 1..Len(Results) : SourceCell(k) = Cell15 /\ Results[k].IMEI14 = D14

\* C5: the normalized value of every result consists of digits only.
C5_AllDigits ==
    \A k \in 1..Len(Results) :
        \A i \in 1..Len(Results[k].IMEI14) : Results[k].IMEI14[i] \in Digits

\* C6: in a returned report the per-column totals, founds and missings sum to
\* the aggregate counts.
C6_ColumnSums ==
    ipc = "done" =>
        /\ SumOf(report.ColumnStats, "Total") = report.TotalIMEIs
        /\ SumOf(report.ColumnStats, "Found") = report.TotalFound
        /\ SumOf(report.ColumnStats, "Missing") = report.TotalMissing

\* C7: in a returned report found + missing = total in every per-column stat
\* and in the aggregate, and there are as many results as identifiers.
C7_CountsAddUp ==
    ipc = "done" =>
        /\ \A i \in 1..Len(report.ColumnStats) :
               report.ColumnStats[i].Found + report.ColumnStats[i].Missing
                   = report.ColumnStats[i].Total
        /\ report.TotalFound + report.TotalMissing = report.TotalIMEIs
        /\ Len(Results) = report.TotalIMEIs

\* A returned report with two per-column stats, a found and a missing result.
C7_Witness ==
    /\ ipc = "done"
    /\ Len(report.ColumnStats) = 2
    /\ report.TotalFound > 0
    /\ report.TotalMissing > 0
    /\ \E i \in 1..2 : report.ColumnStats[i].Found > 0 /\ report.ColumnStats[i].Missing > 0

\* C8: the row number of every result is the position of its line in the
\* upload, the header being row 1 (data line j is row j + 1).
C8_RowNumber ==
    \A k \in 1..Len(Results) : Results[k].CSVLine = origin[k].line + 1

\* C20: a second invocation of Analyze on the same upload and the same text
\* returns the report the first returned: the same results in the same
\* order, the same per-column stats in the same order, the same text report.
C20_SameReport ==
    (ipc = "done" /\ firstReport # Nil) =>
        /\ report.Results = firstReport.Results
        /\ report.ColumnStats = firstReport.ColumnStats
        /\ report.TextReport = firstReport.TextReport
        /\ iret = [value |-> firstReport, err |-> Nil]

-----------------------------------------------------------------------------
(* Properties of the anomaly detector.                                     *)

Analysed == rpc \in {"flagging", "done"}

\* The distinct identifiers of the rows of the batch that carry document d.
IdentifiersOf(d) == { rows[i].IINBIN : i \in { j \in 1..Len(rows) : rows[j].DocNum = d } }

\* The number of rows of the batch with identifier iin.
RowCount(iin) == Cardinality({ i \in 1..Len(rows) : rows[i].IINBIN = iin })

\* C9: a document number is in the document-reuse list exactly when it is
\* not empty and its rows carry more than one distinct identifier; its count
\* and its identifier list are that distinct set; no document is listed twice.
C9_DocumentReuse ==
    Analysed =>
        LET dr == result.DocumentReuse
        IN  /\ \A d \in { rows[i].DocNum : i \in 1..Len(rows) } \cup {<<>>} :
                 (\E i \in 1..Len(dr) : dr[i].DocNumber = d)
                     <=> (d # <<>> /\ Cardinality(IdentifiersOf(d)) > 1)
            /\ \A i \in 1..Len(dr) :
                 /\ dr[i].Count = Cardinality(IdentifiersOf(dr[i].DocNumber))
                 /\ Range(dr[i].IINs) = IdentifiersOf(dr[i].DocNumber)
                 /\ Len(dr[i].IINs) = dr[i].Count
            /\ \A i, j \in 1..Len(dr) : dr[i].DocNumber = dr[j].DocNumber => i = j

\* A batch in which one document is flagged with count 2 while the empty
\* document number, also under two identifiers, is not.
C9_Witness ==
    /\ rpc = "done"
    /\ Len(result.DocumentReuse) = 1
    /\ result.DocumentReuse[1].Count = 2
    /\ Cardinality(IdentifiersOf(<<>>)) = 2

\* A flagged document whose count is smaller than the number of its rows.
C9_WitnessCount ==
    /\ rpc = "done"
    /\ \E i \in 1..Len(result.DocumentReuse) :
         /\ result.DocumentReuse[i].Count = 2
         /\ Cardinality({ j \in 1..Len(rows) :
                            rows[j].DocNum = result.DocumentReuse[i].DocNumber }) > 2

\* One document in several rows of a single identifier, flagged by nothing.
C9_WitnessSingle ==
    /\ rpc = "done"
    /\ \E d \in { rows[i].DocNum : i \in 1..Len(rows) } :
         /\ d # <<>>
         /\ Cardinality(IdentifiersOf(d)) = 1
         /\ Cardinality({ j \in 1..Len(rows) : rows[j].DocNum = d }) >= 3
         /\ \A i \in 1..Len(result.DocumentReuse) : result.DocumentReuse[i].DocNumber # d

C10_WitnessYellow ==
    /\ rpc = "done"
    /\ \E i \in 1..Len(result.HighFrequencyIIN) :
         /\ RowCount(result.HighFrequencyIIN[i].IINBIN) = 5
         /\ result.HighFrequencyIIN[i].RiskLevel = "yellow"

\* The positions of the rows of identifier iin, and of those with an
\* application ID.
RowsOf(iin) == { j \in 1..Len(rows) : rows[j].IINBIN = iin }

AppRowsOf(iin) == { j \in RowsOf(iin) : rows[j].AppID # <<>> }

\* The position of the first row of identifier iin with status s.
FirstRowWith(iin, s) ==
    CHOOSE j \in RowsOf(iin) :
        /\ rows[j].Status = s
        /\ \A k \in RowsOf(iin) : rows[k].Status = s => j <= k

\* C11: an identifier is in the flip-flop list (once) exactly when its rows
\* carry more than one distinct status string, compared exactly; the flag
\* lists the distinct statuses without duplicates in order of first
\* appearance, and the non-empty application IDs of the identifier's rows in
\* encounter order, duplicates retained.
C11_FlipFlop ==
    Analysed =>
        LET ff == result.FlipFlopStatus
        IN  /\ \A iin \in { rows[j].IINBIN : j \in 1..Len(rows) } :
                 (\E i \in 1..Len(ff) : ff[i].IINBIN = iin)
                     <=> Cardinality({ rows[j].Status : j \in RowsOf(iin) }) > 1
            /\ \A i, j \in 1..Len(ff) : ff[i].IINBIN = ff[j].IINBIN => i = j
            /\ \A i \in 1..Len(ff) :
                 LET iin == ff[i].IINBIN
                     st  == ff[i].Statuses
                     ap  == ff[i].AppIDs
                 IN  /\ RowsOf(iin) # {}
                     /\ Range(st) = { rows[j].Status : j \in RowsOf(iin) }
                     /\ \A a, b \in 1..Len(st) :
                            a < b => FirstRowWith(iin, st[a]) < FirstRowWith(iin, st[b])
                     /\ Len(ap) = Cardinality(AppRowsOf(iin))
                     /\ \A j \in AppRowsOf(iin) :
                            ap[Cardinality({ k \in AppRowsOf(iin) : k <= j })] = rows[j].AppID

\* An identifier flagged for two statuses that differ in case only, with a
\* repeated application ID, next to an identifier with one status and no flag.
C11_Witness ==
    /\ rpc = "done"
    /\ \E i \in 1..Len(result.FlipFlopStatus) :
         /\ result.FlipFlopStatus[i].Statuses = <<Approved, approved>>
         /\ result.FlipFlopStatus[i].AppIDs = <<App1, App1>>
    /\ \E iin \in { rows[j].IINBIN : j \in 1..Len(rows) } :
         /\ Cardinality(RowsOf(iin)) >= 2
         /\ \A i \in 1..Len(result.FlipFlopStatus) :
                result.FlipFlopStatus[i].IINBIN # iin

\* A flag whose application IDs skip a row without one and whose statuses
\* repeat in the rows.
C11_WitnessOrder ==
    /\ rpc = "done"
    /\ \E i \in 1..Len(result.FlipFlopStatus) :
         LET f == result.FlipFlopStatus[i]
         IN  /\ f.Statuses = <<Rejected, Approved>>
             /\ Len(f.AppIDs) < Cardinality(RowsOf(f.IINBIN))
             /\ Cardinality(RowsOf(f.IINBIN)) >= 3

-----------------------------------------------------------------------------
(* Properties of the auto-flag loops.                                      *)

\* The rows of the store for identifier iin.
ProfilesOf(st, iin) == { r \in st : r.IINBIN = iin }

AllSucceeded == \A i \in 1..Len(log) : log[i].ok

FrequencyFlagsOf(iin) ==
    { i \in 1..Len(result.HighFrequencyIIN) : result.HighFrequencyIIN[i].IINBIN = iin }

InReuseGroup(iin) ==
    \E i \in 1..Len(result.DocumentReuse) : iin \in Range(result.DocumentReuse[i].IINs)

\* C12: no frequency upsert is issued after a document-reuse upsert; when
\* the run has returned and every upsert succeeded, an identifier with a
\* frequency flag that is also in a document-reuse group has tier yellow in
\* the store, and one with a frequency flag only has the tier of its flag.
C12_FlagOrder ==
    /\ \A i, j \in 1..Len(log) :
           (i < j /\ log[i].profile.Reason.kind = "document reused")
               => log[j].profile.Reason.kind = "document reused"
    /\ (rpc = "done" /\ AllSucceeded) =>
           \A iin \in { rows[j].IINBIN : j \in 1..Len(rows) } :
               \A i \in FrequencyFlagsOf(iin) :
                   /\ Cardinality(ProfilesOf(store, iin)) = 1
                   /\ \A r \in ProfilesOf(store, iin) :
                          r.RiskLevel = IF InReuseGroup(iin) THEN "yellow"
                                        ELSE result.HighFrequencyIIN[i].RiskLevel

\* An identifier flagged red by frequency and member of a reuse group ends
\* yellow, every upsert having succeeded.
C12_Witness ==
    /\ rpc = "done"
    /\ AllSucceeded
    /\ \E i \in 1..Len(result.HighFrequencyIIN) :
         /\ result.HighFrequencyIIN[i].RiskLevel = "red"
         /\ InReuseGroup(result.HighFrequencyIIN[i].IINBIN)
         /\ \E r \in store : /\ r.IINBIN = result.HighFrequencyIIN[i].IINBIN
                              /\ r.RiskLevel = "yellow"

\* An identifier flagged red by frequency only ends red.
C12_WitnessFrequencyOnly ==
    /\ rpc = "done"
    /\ AllSucceeded
    /\ \E i \in 1..Len(result.HighFrequencyIIN) :
         /\ result.HighFrequencyIIN[i].RiskLevel = "red"
         /\ ~InReuseGroup(result.HighFrequencyIIN[i].IINBIN)
         /\ \E r \in store : /\ r.IINBIN = result.HighFrequencyIIN[i].IINBIN
                              /\ r.RiskLevel = "red"

\* What a profile of the store says about its identifier.
Verdict(r) == [IINBIN |-> r.IINBIN, RiskLevel |-> r.RiskLevel, Reason |-> r.Reason,
               FlaggedBy |-> r.FlaggedBy]

\* C13: when a second invocation on the same rows by the same actor has
\* returned, every upsert of both having succeeded, every identifier has the
\* tier, reason and flaggedBy the first invocation left it with.
C13_Convergence ==
    (rpc = "done" /\ run = 2 /\ AllSucceeded) =>
        { Verdict(r) : r \in store } = { Verdict(r) : r \in firstStore }

\* The flags of a document-reuse list, the order of identifiers put aside.
ReuseFlags(dr) ==
    { [DocNumber |-> dr[i].DocNumber, IINs |-> Range(dr[i].IINs), Count |-> dr[i].Count] :
        i \in 1..Len(dr) }

\* C14: the second invocation on the same rows computes the same totalRows
\* and uniqueIdentifiers as the first, and flag lists of the same length and
\* the same flags in each of the three collections, up to the order of the
\* flags and of the identifiers inside a document-reuse flag.
C14_Deterministic ==
    (run = 2 /\ Analysed) =>
        /\ result.TotalRows = firstResult.TotalRows
        /\ result.UniqueIINs = firstResult.UniqueIINs
        /\ Len(result.DocumentReuse) = Len(firstResult.DocumentReuse)
        /\ ReuseFlags(result.DocumentReuse) = ReuseFlags(firstResult.DocumentReuse)
        /\ Len(result.HighFrequencyIIN) = Len(firstResult.HighFrequencyIIN)
        /\ Range(result.HighFrequencyIIN) = Range(firstResult.HighFrequencyIIN)
        /\ Len(result.FlipFlopStatus) = Len(firstResult.FlipFlopStatus)
        /\ Range(result.FlipFlopStatus) = Range(firstResult.FlipFlopStatus)

\* A second invocation that lists two reuse flags and two flip-flop flags in
\* another order than the first.
C14_Witness ==
    /\ run = 2
    /\ rpc = "done"
    /\ Len(result.DocumentReuse) = 2
    /\ result.DocumentReuse # firstResult.DocumentReuse
    /\ Len(result.FlipFlopStatus) = 2
    /\ result.FlipFlopStatus # firstResult.FlipFlopStatus

\* A second invocation with a frequency flag and a reuse flag whose
\* identifiers come in another order than in the first.
C14_WitnessFrequency ==
    /\ run = 2
    /\ rpc = "done"
    /\ Len(result.HighFrequencyIIN) = 1
    /\ Len(result.DocumentReuse) = 1
    /\ result.DocumentReuse[1].IINs # firstResult.DocumentReuse[1].IINs

\* The number of upserts the two loops issue for the flags of res.
UpsertsDue(res) ==
    Len(res.HighFrequencyIIN)
        + Cardinality({ p \in (1..Len(res.DocumentReuse)) \X (1..Len(rows)) :
                          p[2] <= Len(res.DocumentReuse[p[1]].IINs) })

\* C15: whichever upserts fail, no error is returned after the analyses, the
\* flag collections, totalRows and uniqueIdentifiers stay as the analyses
\* left them, every upsert due is attempted before the return, and
\* AutoFlagged is the number of upserts that succeeded.
C15_UpsertFailure ==
    /\ rpc = "error" => log = <<>>
    /\ Analysed =>
           /\ result = [ detected EXCEPT
                  !.AutoFlagged = Cardinality({ i \in 1..Len(log) : log[i].ok }) ]
           /\ Len(log) + Len(pending) = UpsertsDue(detected)
    /\ rpc = "done" =>
           /\ rret = [value |-> result, err |-> Nil]
           /\ Len(log) = UpsertsDue(detected)
           /\ \A i \in 1..Len(detected.HighFrequencyIIN) :
                  \E k \in 1..Len(log) :
                      log[k].profile.IINBIN = detected.HighFrequencyIIN[i].IINBIN
           /\ \A i \in 1..Len(detected.DocumentReuse) :
                  \A iin \in Range(detected.DocumentReuse[i].IINs) :
                      \E k \in 1..Len(log) :
                          /\ log[k].profile.IINBIN = iin
                          /\ log[k].profile.Reason.kind = "document reused"
                          /\ log[k].profile.Reason.doc = detected.DocumentReuse[i].DocNumber

\* A returned run whose first upsert failed and whose last succeeded.
C15_Witness ==
    /\ rpc = "done"
    /\ Len(log) >= 3
    /\ ~log[1].ok
    /\ log[Len(log)].ok
    /\ result.AutoFlagged < Len(log)
    /\ result.AutoFlagged > 0

\* A returned run all of whose upserts failed.
C15_WitnessAllFail ==
    /\ rpc = "done"
    /\ Len(log) >= 2
    /\ \A i \in 1..Len(log) : ~log[i].ok
    /\ result.AutoFlagged = 0
    /\ store = {}

-----------------------------------------------------------------------------
(* Properties of the uploads.                                              *)

\* The header has a column named by one of the aliases of req.
HasAlias(hdr, req) ==
    \E i \in 1..Len(hdr), a \in 1..Len(altNames(req)) :
        ToLower(TrimSpace(hdr[i])) = altNames(req)[a]

MissingColumns(hdr) == { req \in {"iin", "doc", "status"} : ~HasAlias(hdr, req) }

\* C16: AnalyzeCSV returns an error and no result when the header cannot be
\* read, when a required logical column has none of its aliases in the
\* header (the error names such a column and the aliases tried), or when no
\* row with an identifier remains, and in no other case; Analyze returns an
\* error and no report when the header cannot be read or has no recognized
\* IMEI column, and in no other case.
C16_BatchFatal ==
    /\ rpc = "error" =>
           /\ rret.value = Nil
           /\ \/ rheader = <<>> /\ rret.err = ErrReadingHeader
              \/ /\ rheader # <<>>
                 /\ rret.err.kind = "CSV missing required column"
                 /\ rret.err.column \in MissingColumns(rheader)
                 /\ rret.err.tried = altNames(rret.err.column)
              \/ /\ rheader # <<>>
                 /\ MissingColumns(rheader) = {}
                 /\ rret.err = ErrNoRows
                 /\ rows = <<>>
    /\ (rpc # "start" /\ rheader # <<>> /\ MissingColumns(rheader) # {}) => rpc = "error"
    /\ Analysed => (rows # <<>> /\ rret.err = Nil)
    /\ ipc = "error" =>
           /\ iret.value = Nil
           /\ \/ header = <<>> /\ iret.err = ErrReadingHeader
              \/ /\ header # <<>>
                 /\ \A i \in 1..Len(header) : ~IsIMEIHeader(header[i])
                 /\ iret.err = ErrNoIMEIColumn
    /\ (ipc # "start" /\ \A i \in 1..Len(header) : ~IsIMEIHeader(header[i]))
           => ipc = "error"

\* A risk upload refused for its missing identifier column, the error naming
\* the four aliases tried, and an IMEI upload refused for its header.
C16_Witness ==
    /\ rpc = "error"
    /\ rret.err.kind = "CSV missing required column"
    /\ rret.err.column = "iin"
    /\ Len(rret.err.tried) = 4
    /\ ipc = "error"
    /\ header = <<ColName>>
    /\ iret.err = ErrNoIMEIColumn

\* A risk upload refused for its rows: lines were read, none had an identifier.
C16_WitnessNoRows ==
    /\ rpc = "error"
    /\ rret.err = ErrNoRows
    /\ consumed >= 2

\* C17: an upload whose header starts with a byte-order mark or is separated
\* by semicolons is accepted by AnalyzeCSV, and by Analyze, exactly when the
\* same upload without the mark and separated by commas is.
C17_InputTolerance ==
    /\ (rpc # "start" /\ rheader # <<>>) =>
           ((rpc = "error" /\ rret.err.kind = "CSV missing required column")
                <=> MissingColumns(RobustHeader(rheader)) # {})
    /\ (ipc # "start" /\ header # <<>>) =>
           (ipc = "error"
                <=> \A i \in 1..Len(RobustHeader(header)) :
                        ~IsIMEIHeader(RobustHeader(header)[i]))

-----------------------------------------------------------------------------
(* Properties of the Risk Profile Store.                                   *)

\* The repository call that the step has just committed, if it is an upsert.
Upserted ==
    /\ Len(log') = Len(log) + 1
    /\ log'[Len(log')].op = "upsert"
    /\ log'[Len(log')].ok

\* C18: the store never holds two profiles of one identifier; a successful
\* upsert leaves exactly one profile of its identifier, carrying the tier,
\* reason and flaggedBy of that upsert (a new profile if there was none, the
\* same record overwritten if there was one), and touches no other profile;
\* a delete adds and changes nothing.
C18_OnePerIdentifier ==
    /\ [](\A r, q \in store : r.IINBIN = q.IINBIN => r = q)
    /\ [][ /\ Upserted =>
               LET p == log'[Len(log')].profile
               IN  /\ { r \in store' : r.IINBIN # p.IINBIN }
                          = { r \in store : r.IINBIN # p.IINBIN }
                   /\ Cardinality(ProfilesOf(store', p.IINBIN)) = 1
                   /\ \A r \in ProfilesOf(store', p.IINBIN) :
                          /\ Verdict(r) = p
                          /\ \A old \in ProfilesOf(store, p.IINBIN) :
                                 r.ID = old.ID /\ r.CreatedAt = old.CreatedAt
           /\ (Len(log') = Len(log) + 1 /\ log'[Len(log')].op = "delete")
                  => store' \subseteq store
         ]_vars

\* A profile that was created, overwritten with another tier, reason and
\* actor, and is still the only one of its identifier, next to a second
\* profile, after a delete.
C18_Witness ==
    /\ \E i, j, k \in 1..Len(log) :
         /\ i < j
         /\ log[i].op = "upsert" /\ log[i].ok
         /\ log[j].op = "upsert" /\ log[j].ok
         /\ log[i].profile.IINBIN = log[j].profile.IINBIN
         /\ log[i].profile.RiskLevel # log[j].profile.RiskLevel
         /\ log[i].profile.FlaggedBy # log[j].profile.FlaggedBy
         /\ log[k].op = "delete" /\ log[k].ok
    /\ Cardinality(store) = 2

\* The positions in the log of the upserts committed for identifier iin.
Commits(iin) ==
    { k \in 1..Len(log) :
        log[k].op = "upsert" /\ log[k].ok /\ log[k].profile.IINBIN = iin }

Last(ks) == CHOOSE k \in ks : \A j \in ks : j <= k

DeletedAfter(k) == \E d \in (k + 1)..Len(log) : log[d].op = "delete" /\ log[d].ok

\* C19: whatever the interleaving of the callers, an identifier with
\* committed upserts (and no delete after the last of them) has exactly one
\* profile, and its tier, reason and flaggedBy are all those of the last
\* committed upsert.
C19_LastCommitted ==
    \A iin \in { log[k].profile.IINBIN : k \in { j \in 1..Len(log) : log[j].op = "upsert" } } :
        (Commits(iin) # {} /\ ~DeletedAfter(Last(Commits(iin)))) =>
            /\ Cardinality(ProfilesOf(store, iin)) = 1
            /\ \A r \in ProfilesOf(store, iin) :
                   /\ r.RiskLevel = log[Last(Commits(iin))].profile.RiskLevel
                   /\ r.Reason = log[Last(Commits(iin))].profile.Reason
                   /\ r.FlaggedBy = log[Last(Commits(iin))].profile.FlaggedBy

\* Two callers have upserted the same identifier turn and turn about, with
\* different tiers and reasons, and both have finished.
C19_Witness ==
    /\ \A c \in Callers : inflight[c] = <<>>
    /\ \E i, j, k \in 1..Len(log) :
         /\ i < j /\ j < k
         /\ \A n \in {i, j, k} : log[n].op = "upsert" /\ log[n].ok
         /\ log[i].profile.IINBIN = log[j].profile.IINBIN
         /\ log[j].profile.IINBIN = log[k].profile.IINBIN
         /\ log[i].profile.FlaggedBy = log[k].profile.FlaggedBy
         /\ log[i].profile.FlaggedBy # log[j].profile.FlaggedBy
         /\ log[j].profile.RiskLevel # log[k].profile.RiskLevel
         /\ log[j].profile.Reason # log[k].profile.Reason
         /\ k = Last(Commits(log[k].profile.IINBIN))
    /\ ~\E d \in 1..Len(log) : log[d].op = "delete"

-----------------------------------------------------------------------------
(* Properties of the text report.                                          *)

\* The results that were not found, in result order.
NotFound == SelectSeq(Results, LAMBDA r : ~r.Found)

\* The number of lines of the missing-details section.
MissingSection == IF report.TotalMissing > 0 THEN 1 + Len(NotFound) ELSE 0

\* C21: the text report of a returned report is, in this order, the banner,
\* the three aggregate counts, one line per per-column stat, the
\* missing-details section (present exactly when totalMissing > 0, one line
\* per result that was not found and no other), and the full mapping with
\* one line per result in result order, MATCHED with the matched value for
\* a found result and MISSING otherwise.
C21_TextReport ==
    ipc = "done" =>
        LET t  == report.TextReport
            n  == Len(report.ColumnStats)
            m0 == 5 + n
            f0 == m0 + MissingSection
        IN  /\ Len(t) = f0 + 1 + Len(Results)
            /\ t[1] = [kind |-> "banner"]
            /\ t[2] = [kind |-> "total", n |-> report.TotalIMEIs]
            /\ t[3] = [kind |-> "total-found", n |-> report.TotalFound]
            /\ t[4] = [kind |-> "total-missing", n |-> report.TotalMissing]
            /\ t[5].kind = "statistics-header"
            /\ \A i \in 1..n :
                   t[5 + i] = [ kind |-> "column",
                                column |-> report.ColumnStats[i].Column,
                                total |-> report.ColumnStats[i].Total,
                                found |-> report.ColumnStats[i].Found,
                                missing |-> report.ColumnStats[i].Missing ]
            /\ (\E i \in 1..Len(t) : t[i].kind = "missing-header")
                   <=> report.TotalMissing > 0
            /\ report.TotalMissing > 0 =>
                   /\ t[m0 + 1].kind = "missing-header"
                   /\ \A i \in 1..Len(NotFound) :
                          t[m0 + 1 + i] = [ kind |-> "missing-detail",
                                            line |-> NotFound[i].CSVLine,
                                            column |-> NotFound[i].Column,
                                            imei |-> NotFound[i].IMEI14 ]
            /\ t[f0 + 1].kind = "mapping-header"
            /\ \A k \in 1..Len(Results) :
                   /\ t[f0 + 1 + k].line = Results[k].CSVLine
                   /\ t[f0 + 1 + k].column = Results[k].Column
                   /\ t[f0 + 1 + k].imei = Results[k].IMEI14
                   /\ IF Results[k].Found
                      THEN /\ t[f0 + 1 + k].kind = "MATCHED"
                           /\ t[f0 + 1 + k].matched = Results[k].MatchedIMEI
                      ELSE t[f0 + 1 + k] = [ kind |-> "MISSING",
                                             line |-> Results[k].CSVLine,
                                             column |-> Results[k].Column,
                                             imei |-> Results[k].IMEI14 ]

\* A returned report with a found result before a missing one: the section
\* lists one of two results.
C21_Witness ==
    /\ ipc = "done"
    /\ Len(Results) >= 2
    /\ Results[1].Found
    /\ ~Results[2].Found
    /\ \E i \in 1..Len(report.TextReport) : report.TextReport[i].kind = "missing-detail"

\* A returned report with results, all found: the section is absent.
C21_WitnessNoSection ==
    /\ ipc = "done"
    /\ Len(Results) > 0
    /\ report.TotalMissing = 0
    /\ \A i \in 1..Len(report.TextReport) : report.TextReport[i].kind # "missing-header"

-----------------------------------------------------------------------------
(* Properties of the candidate extraction.                                 *)

IsDigitAt(text, i) == i >= 1 /\ i <= Len(text) /\ text[i] \in Digits

\* The positions where a maximal run of exactly 15 digits starts: 15 digits
\* with no digit before and none after.
RunStarts(text) ==
    { i \in 1..Len(text) :
        /\ \A k \in i..(i + CandidateLen - 1) : IsDigitAt(text, k)
        /\ ~IsDigitAt(text, i - 1)
        /\ ~IsDigitAt(text, i + CandidateLen) }

RECURSIVE InOrder(_)
InOrder(S) ==
    IF S = {} THEN <<>>
    ELSE LET m == CHOOSE x \in S : \A y \in S : x <= y
         IN  <<m>> \o InOrder(S \ {m})

RunsOf15(text) ==
    LET at == InOrder(RunStarts(text))
    IN  [ k \in 1..Len(at) |-> SubSeq(text, at[k], at[k] + CandidateLen - 1) ]

\* C22: the candidate list is, in text order, every maximal run of exactly
\* 15 digits bounded on each side by a non-digit character (whatever it is)
\* or a string edge, and nothing else.
C22_Candidates ==
    ipc = "extracted" => pdf15 = RunsOf15(pdfText)

\* The same with the runs that touch a letter or an underscore set aside.
C22_WordBounded ==
    (/\ ipc = "extracted"
     /\ \A i \in RunStarts(pdfText) :
            /\ ~(IsDigitAt(pdfText, i - 1) \/ (i > 1 /\ IsWordChar(pdfText[i - 1])))
            /\ ~(i + CandidateLen <= Len(pdfText)
                   /\ IsWordChar(pdfText[i + CandidateLen])))
        => pdf15 = RunsOf15(pdfText)

-----------------------------------------------------------------------------
(* Properties of the ticket endpoints.                                     *)

\* The rows that exist before and after the step, with the named columns of
\* the new row put back to their old values.
Restored(id, cols) ==
    [ c \in DOMAIN tickets[id] |->
        IF c \in cols THEN tickets[id][c] ELSE tickets'[id][c] ]

ChangesOnly(cols) ==
    \A id \in DOMAIN tickets : Restored(id, cols) = tickets[id]

\* C23: a request of an ATS-staff caller changes no column of a ticket but
\* support_comment (so never customs_comment or status), and a request of a
\* Customs caller changes no column but customs_comment and status.
C23_FieldPermissions ==
    [][ /\ RequestBy(RoleATSStaff) => ChangesOnly({"SupportComment"})
        /\ RequestBy(RoleCustoms) => ChangesOnly({"CustomsComment", "Status"}) ]_vars

\* The part of C23 the routes do enforce: no request of an ATS-staff caller
\* changes the status or the assignee of a ticket.
C23_StatusGuarded ==
    [][ RequestBy(RoleATSStaff) => ChangesOnly({"SupportComment", "CustomsComment"}) ]_vars

ValidStatuses == {TicketStatusToDo, TicketStatusInProgress, TicketStatusCompleted}

\* C26: the status of every stored ticket is to_do, in_progress or
\* completed; a ticket is created with status to_do; an UpdateStatus with
\* another status value and an UpdateComment with a field other than
\* support_comment and customs_comment are answered with an error and
\* leave every ticket as it was.
C26_StatusInvariant ==
    /\ [](\A id \in DOMAIN tickets : tickets[id].Status \in ValidStatuses)
    /\ [][ /\ Len(tickets') > Len(tickets) =>
                 /\ Len(tickets') = Len(tickets) + 1
                 /\ tickets'[Len(tickets')].Status = TicketStatusToDo
                 /\ ChangesOnly({})
           /\ \A role \in UserRoles, id \in TicketIDs :
                 /\ \A status \in StatusValues \ ValidStatuses :
                        UpdateStatus(role, id, status) =>
                            /\ tickets' = tickets
                            /\ tresp' \in {Refused, Response(400, "invalid status")}
                            /\ RequireRole(updateMw, role) => tresp' # Refused
                 /\ \A field \in FieldValues \ {"support_comment", "customs_comment"},
                       value \in CommentValues :
                        UpdateComment(role, id, field, value) =>
                            /\ tickets' = tickets
                            /\ tresp' \in {Refused, Response(400, "invalid field")}
                            /\ RequireRole(viewMw, role) => tresp' # Refused ]_vars

\* A completed, assigned ticket with both comments set, and the last request
\* refused for its status value.
C26_Witness ==
    /\ Len(tickets) > 0
    /\ tickets[1].Status = TicketStatusCompleted
    /\ tickets[1].CustomsComment # ""
    /\ tickets[1].SupportComment # ""
    /\ tickets[1].AssignedTo # Nil
    /\ tresp = Response(400, "invalid status")

\* The same with the last request refused for its field.
C26_WitnessField ==
    /\ Len(tickets) > 0
    /\ tickets[1].Status = TicketStatusInProgress
    /\ tresp = Response(400, "invalid field")

-----------------------------------------------------------------------------
(* Properties of the ingestion.                                            *)

\* The row a line of the upload stands for: its fields trimmed, the
\* application ID only under a header that has the column.
RowOf(ln) ==
    [ IINBIN |-> TrimSpace(ln.iin),
      DocNum |-> TrimSpace(ln.doc),
      Status |-> TrimSpace(ln.status),
      AppID  |-> IF \E i \in 1..Len(rheader) :
                       ToLower(TrimSpace(rheader[i])) \in Range(altNames("appid"))
                 THEN TrimSpace(ln.app) ELSE <<>> ]

\* C24: a data line whose trimmed identifier is empty, or that the reader
\* cannot hand over as a record of the header's length, is dropped and
\* reading goes on without an error; any other line is retained with its
\* trimmed fields; totalRows is the number of retained rows and
\* uniqueIdentifiers the number of distinct identifiers among them.
C24_RowFilter ==
    /\ [](\A i \in 1..Len(rows) :
             rows[i].IINBIN # <<>> /\ rows[i].IINBIN = TrimSpace(rows[i].IINBIN))
    /\ [](Analysed =>
             /\ result.TotalRows = Len(rows)
             /\ result.UniqueIINs = Cardinality({ rows[i].IINBIN : i \in 1..Len(rows) }))
    /\ [][ consumed' = consumed + 1 =>
             /\ rpc' = "reading"
             /\ rret' = NoReturn
             /\ \/ rows' = rows /\ bulkRun' = 0
                \/ \E ln \in NextLines :
                     /\ bulkRun' = (IF ln = BulkLine THEN bulkRun + 1 ELSE 0)
                     /\ rows' = (IF TrimSpace(ln.iin) = <<>> THEN rows
                                 ELSE Append(rows, RowOf(ln))) ]_vars

\* A result over fewer rows than lines were read, two of the rows with the
\* same identifier.
C24_Witness ==
    /\ Analysed
    /\ consumed > result.TotalRows
    /\ result.TotalRows >= 3
    /\ result.UniqueIINs = 2

-----------------------------------------------------------------------------
(* Properties of TrackingService.Track.                                    *)

\* The provider calls that returned at least one event.
Successes ==
    { i \in 1..Len(queried) :
        queried[i].out.err = Nil /\ queried[i].out.events.elems # <<>> }

AllDigits(s) == s # <<>> /\ \A i \in 1..Len(s) : s[i] \in Digits

\* C25: the providers are queried in their configured order; the result is
\* that of the first provider that returns an event, providers that return
\* an error or no event being passed over and none queried after it; when
\* no provider returns an event, a track number made of digits only gives a
\* CDEK result without events and with an external tracking URL, and any
\* other track number an error.
C25_ProviderSelection ==
    /\ Len(queried) <= Len(trackers)
    /\ \A i \in 1..Len(queried) : queried[i].provider = trackers[i]
    /\ \A i \in Successes : i = Len(queried)
    /\ tpc = "done" =>
         IF Successes # {}
         THEN /\ tret.err = Nil
              /\ tret.value.TrackNumber = trackNumber
              /\ tret.value.Provider = trackers[Len(queried)]
              /\ tret.value.Events = queried[Len(queried)].out.events
         ELSE /\ Len(queried) = Len(trackers)
              /\ IF AllDigits(trackNumber)
                 THEN /\ tret.err = Nil
                      /\ tret.value.TrackNumber = trackNumber
                      /\ tret.value.Provider = "CDEK"
                      /\ tret.value.Events = NilSlice
                      /\ tret.value.ExternalURL # <<>>
                      /\ SubSeq(tret.value.ExternalURL, 2, Len(tret.value.ExternalURL))
                             = trackNumber
                 ELSE /\ tret.value = Nil
                      /\ tret.err # Nil

\* The first provider failed, the second returned events and is the one
\* named in the result.
C25_Witness ==
    /\ tpc = "done"
    /\ Len(queried) = 2
    /\ queried[1].out.err # Nil
    /\ Successes = {2}
    /\ trackers[1] # trackers[2]
    /\ tret.value.Provider = trackers[2]

\* No provider returned an event for a track number of digits.
C25_WitnessRedirect ==
    /\ tpc = "done"
    /\ Len(trackers) = 2
    /\ Successes = {}
    /\ AllDigits(trackNumber)
    /\ tret.value.Provider = "CDEK"

\* No provider returned an event for another track number.
C25_WitnessError ==
    /\ tpc = "done"
    /\ Len(trackers) = 2
    /\ Successes = {}
    /\ trackNumber # <<>>
    /\ tret.err # Nil

-----------------------------------------------------------------------------
(* Properties of the two versions of IMEIService.Analyze.  After           *)
(* AnalyzePrefix, firstReport is the report of the later (substring)       *)
(* version and report that of the earlier (prefix) version.                *)

BothReported == ipc = "done" /\ firstReport # Nil

\* A result carries a value exactly when it is found, and the value is the
\* placeholder or a 15-character candidate of the text.
ValueIffFound(res) ==
    /\ (res.MatchedIMEI = <<>>) <=> ~res.Found
    /\ res.Found =>
         \/ res.MatchedIMEI = Placeholder
         \/ /\ Len(res.MatchedIMEI) = CandidateLen
            /\ \E i \in 1..Len(pdf15) : pdf15[i] = res.MatchedIMEI

\* C27: in every result of either version the matched value is empty
\* exactly when the result is not found; a found result carries a 15-digit
\* candidate or the placeholder.
C27_ValueIffFound ==
    /\ \A k \in 1..Len(Results) : ValueIffFound(Results[k])
    /\ firstReport # Nil =>
         \A k \in 1..Len(firstReport.Results) : ValueIffFound(firstReport.Results[k])

\* Both versions have reported on an upload with a value that is in the
\* text but starts no candidate, and a value that is nowhere in the text.
C27_Witness ==
    /\ BothReported
    /\ \E k \in 1..Len(firstReport.Results) :
           firstReport.Results[k].MatchedIMEI = Placeholder
    /\ \E k \in 1..Len(firstReport.Results) : ~firstReport.Results[k].Found
    /\ \E k \in 1..Len(Results) : ~Results[k].Found /\ Results[k].MatchedIMEI = <<>>

\* Both versions have reported a result with a 15-digit value.
C27_WitnessCandidate ==
    /\ BothReported
    /\ \E k \in 1..Len(Results) : Results[k].Found /\ Len(Results[k].MatchedIMEI) = CandidateLen
    /\ \E k \in 1..Len(firstReport.Results) :
           Len(firstReport.Results[k].MatchedIMEI) = CandidateLen

CellOf(res) == <<res.CSVLine, res.Column, res.IMEI14>>

Occurrences(results, cell) ==
    Cardinality({ k \in 1..Len(results) : CellOf(results[k]) = cell })

StartsNoCandidate(imei14) ==
    \A i \in 1..Len(FindAllString(pdfText)) : ~HasPrefix(FindAllString(pdfText)[i], imei14)

\* C30: the two versions report on the same cells (row, column, normalized
\* value), as often, with the same number of identifiers in all and per
\* column; a cell the prefix version finds, the substring version finds
\* with the same matched value; the results of a cell differ only when its
\* value is in the text and starts no candidate, the substring version
\* then reporting it found with the placeholder and the prefix version
\* missing.
C30_Versions ==
    BothReported =>
        LET sub == firstReport.Results
            pre == report.Results
        IN  /\ Len(sub) = Len(pre)
            /\ \A k \in 1..Len(sub) :
                   Occurrences(sub, CellOf(sub[k])) = Occurrences(pre, CellOf(sub[k]))
            /\ firstReport.TotalIMEIs = report.TotalIMEIs
            /\ \A n \in DOMAIN statsMap :
                   \A i \in 1..Len(firstReport.ColumnStats), j \in 1..Len(report.ColumnStats) :
                       (firstReport.ColumnStats[i].Column = n /\ report.ColumnStats[j].Column = n)
                           => firstReport.ColumnStats[i].Total = report.ColumnStats[j].Total
            /\ \A i \in 1..Len(pre), j \in 1..Len(sub) :
                   CellOf(pre[i]) = CellOf(sub[j]) =>
                       IF pre[i].Found
                       THEN sub[j].Found /\ sub[j].MatchedIMEI = pre[i].MatchedIMEI
                       ELSE \/ sub[j] = pre[i]
                            \/ /\ sub[j].Found
                               /\ sub[j].MatchedIMEI = Placeholder
                               /\ pre[i].MatchedIMEI = <<>>
                               /\ Contains(pdfText, pre[i].IMEI14)
                               /\ StartsNoCandidate(pre[i].IMEI14)

\* The versions disagree on one cell and agree on a found one, two
\* candidates of the text starting with a reported value.
C30_Witness ==
    /\ BothReported
    /\ \E i \in 1..Len(Results), j \in 1..Len(firstReport.Results) :
           /\ CellOf(Results[i]) = CellOf(firstReport.Results[j])
           /\ ~Results[i].Found
           /\ firstReport.Results[j].Found

\* The versions agree on a found cell whose value starts two candidates.
C30_WitnessAgree ==
    /\ BothReported
    /\ \E i \in 1..Len(Results) :
           /\ Results[i].Found
           /\ Len(pdf15) = 2
           /\ HasPrefix(pdf15[2], Results[i].IMEI14)
    /\ report.TotalFound = firstReport.TotalFound

-----------------------------------------------------------------------------
(* C28: the write set of the auto-flag loops.                              *)

\* The identifiers of the frequency flags and of the reuse flags of res.
InFlags(res) ==
    { res.HighFrequencyIIN[i].IINBIN : i \in 1..Len(res.HighFrequencyIIN) }
        \cup UNION { Range(res.DocumentReuse[i].IINs) : i \in 1..Len(res.DocumentReuse) }

FlipFlopOnly(res) ==
    { res.FlipFlopStatus[i].IINBIN : i \in 1..Len(res.FlipFlopStatus) } \ InFlags(res)

\* The upserts this run has issued: those on behalf of its actor.
OwnUpserts == { i \in 1..Len(log) : log[i].profile.FlaggedBy = flaggedBy }

\* C28: a run that has returned an error has issued no upsert; every upsert
\* of the run is for an identifier in a frequency flag or a reuse flag of
\* the run; and no step of the run creates, changes or removes the profile
\* of an identifier outside those flags (before the analyses, of any
\* identifier).
C28_WriteSet ==
    /\ [](rpc = "error" => (log = <<>> /\ store = {}))
    /\ [](Analysed => \A i \in OwnUpserts : log[i].profile.IINBIN \in InFlags(detected))
    /\ [][ ~OtherCallerUpsert =>
             IF rpc' \in {"flagging", "done"}
             THEN /\ \A r \in store  : r.IINBIN \notin InFlags(detected') => r \in store'
                  /\ \A r \in store' : r.IINBIN \notin InFlags(detected') => r \in store
             ELSE store' = store /\ log' = log
         ]_vars

\* A run has returned after upserting a flagged identifier, while the
\* profile another caller wrote for an identifier of the upload that is in
\* no flag is as that caller wrote it.
C28_Witness ==
    /\ rpc = "done"
    /\ \E i \in OwnUpserts : log[i].ok
    /\ \E r \in store :
         /\ r.IINBIN \in { rows[j].IINBIN : j \in 1..Len(rows) } \ InFlags(detected)
         /\ Verdict(r) \in OtherProfiles

\* A run has returned with an identifier flagged as flip-flop only, whose
\* profile is as another caller wrote it.
C28_WitnessFlipFlop ==
    /\ rpc = "done"
    /\ \E r \in store :
         /\ r.IINBIN \in FlipFlopOnly(detected)
         /\ Verdict(r) \in OtherProfiles

\* A run has overwritten the profile another caller wrote for an
\* identifier in one of its flags.
C28_WitnessOverwritten ==
    /\ rpc = "done"
    /\ \E i \in 1..Len(log) : log[i].profile.FlaggedBy = OtherCaller
    /\ \E r \in store : r.IINBIN \in InFlags(detected) /\ r.FlaggedBy = flaggedBy
                          /\ r.CreatedAt # r.UpdatedAt

\* A run has returned an error.
C28_WitnessError ==
    /\ rpc = "error"
    /\ rret.err = ErrNoRows

-----------------------------------------------------------------------------
(* C29: what an upsert of an identifier that has a profile leaves alone.    *)

Deleted ==
    /\ Len(log') = Len(log) + 1
    /\ log'[Len(log')].op = "delete"
    /\ log'[Len(log')].ok

\* The number of upserts committed up to position k of the log: the record
\* ID given to a profile created at k.
CommittedUpTo(k) ==
    Cardinality({ j \in 1..k : log[j].op = "upsert" /\ log[j].ok })

\* C29: a committed upsert of an identifier that has a profile leaves the
\* record IDs of the store as they were; the profile of that identifier
\* differs from what it was in tier, flaggedBy, reason and update timestamp
\* at most, and every other profile is as it was; over any step a record ID
\* that stays in the store designates the identifier it designated; and a
\* delete by a record ID removes the profile of the identifier that ID
\* designates, and nothing else.
C29_UpsertFrame ==
    /\ [][ (Upserted /\ ProfilesOf(store, log'[Len(log')].profile.IINBIN) # {}) =>
               LET p == log'[Len(log')].profile
               IN  /\ { r.ID : r \in store' } = { r.ID : r \in store }
                   /\ Cardinality(store') = Cardinality(store)
                   /\ \A r \in store :
                          IF r.IINBIN = p.IINBIN
                          THEN \E q \in store' :
                                 /\ q = [ r EXCEPT !.RiskLevel = p.RiskLevel,
                                                   !.FlaggedBy = p.FlaggedBy,
                                                   !.Reason    = p.Reason,
                                                   !.UpdatedAt = q.UpdatedAt ]
                                 /\ q.UpdatedAt > r.UpdatedAt
                          ELSE r \in store'
         ]_vars
    /\ [][ \A r \in store, q \in store' : q.ID = r.ID => q.IINBIN = r.IINBIN ]_vars
    /\ [][ Deleted =>
               \A r \in store :
                   IF r.ID = log'[Len(log')].id
                   THEN ProfilesOf(store', r.IINBIN) = {}
                   ELSE r \in store'
         ]_vars

\* The first call created a profile (record ID 1), a later upsert changed
\* its tier and actor, and a delete by record ID 1 after that has removed
\* the profile of that identifier.
C29_Witness ==
    \E j, k \in 2..Len(log) :
        /\ j < k
        /\ log[1].op = "upsert" /\ log[1].ok
        /\ log[j].op = "upsert" /\ log[j].ok
        /\ log[j].profile.IINBIN = log[1].profile.IINBIN
        /\ log[j].profile.RiskLevel # log[1].profile.RiskLevel
        /\ log[j].profile.FlaggedBy # log[1].profile.FlaggedBy
        /\ \A d \in 2..(k - 1) : log[d].op = "upsert"
        /\ log[k].op = "delete" /\ log[k].ok
        /\ log[k].id = CommittedUpTo(1)
        /\ ProfilesOf(store, log[1].profile.IINBIN) = {}

\* The same with a second identifier's profile, created in between, still
\* in the store after the delete.
C29_WitnessOther ==
    /\ C29_Witness
    /\ Len(log) = 4
    /\ log[4].op = "delete"
    /\ Cardinality(store) = 1

====
